---- MODULE Spec2Model ----
(***************************************************************************)
(* BroadenAgentic: the agent execution engine (app/core/agent/base.py),    *)
(* the backend invoker (app/core/llm/base.py), the quality criterion       *)
(* (app/core/constraint/criterion.py), the constraint validator            *)
(* (app/core/constraint/input.py) and the backend selector                 *)
(* (app/core/llm/factory.py).                                              *)
(*                                                                         *)
(* The program runs on one asyncio event loop: a coroutine runs without    *)
(* interruption from one await to the next.  Every action below is one     *)
(* such run: the completion of the awaited backend call (or sleep)         *)
(* together with the synchronous code that follows it, up to the next      *)
(* await or to the return/raise of execute.                                *)
(*                                                                         *)
(* Numbers: Python floats are modelled as exact rationals <<num, den>>     *)
(* (den > 0, lowest terms), so rounding is not modelled.  Time is counted  *)
(* in ticks: a backend call takes one tick, a backoff sleep 2^attempt.     *)
(***************************************************************************)
EXTENDS Integers, Sequences, FiniteSets, TLC

VARIABLES
    config,               \* AgentConfig + LLMConfig.max_retries, fixed at construction
    status,               \* AgentBase.status
    retry_count,          \* AgentBase.retry_count
    execution_history,    \* AgentBase.execution_history
    performance_metrics,  \* AgentBase.performance_metrics (a dict: its key set varies)
    total_tokens_used,    \* LLMBase._total_tokens_used
    total_requests,       \* LLMBase._total_requests
    frame,                \* per caller: the locals of its execute coroutine
    log,                  \* per caller: what its current (or last) execute call did
    result,               \* per caller: how its last execute call ended
    steps,                \* number of steps taken (bounds the model)
    is_loaded,            \* LLMBase._is_loaded
    llm_call,             \* the direct call on the invoker in flight (or the last one)
    factory,              \* LLMFactory: _local_llm, _cloud_llm, _current_mode
    factory_call,         \* the call on the factory in flight (or the last one)
    probe                 \* a call of a synchronous function: its arguments and what it returned

\* the invoker and the factory, which execute does not touch (nor a direct
\* call of a function of the validator or of the criterion)
backend_vars == <<is_loaded, llm_call, factory, factory_call, probe>>

vars == <<config, status, retry_count, execution_history, performance_metrics,
          total_tokens_used, total_requests, frame, log, result, steps,
          is_loaded, llm_call, factory, factory_call, probe>>

-----------------------------------------------------------------------------
(* Bounds *)

MaxSteps == 7          \* steps of execute calls in one behaviour
MaxAgentRetries == 2   \* AgentConfig.max_retries ranges over 0..MaxAgentRetries
MaxLLMRetries == 1     \* LLMConfig.max_retries ranges over 0..MaxLLMRetries
MaxInvokerRetries == 3 \* ... and over 0..MaxInvokerRetries for a direct call
MaxInvokerSteps == 10  \* steps of direct calls on the invoker in one behaviour
MaxSelectorSteps == 6  \* steps of calls on the factory in one behaviour

Callers == {1, 2}      \* coroutines that may call execute on the Agent
SeqCallers == {1}      \* the only caller of the sequential specification

-----------------------------------------------------------------------------
(* Rationals *)

RECURSIVE GCD(_, _)
GCD(a, b) == IF b = 0 THEN a ELSE GCD(b, a % b)

Abs(n) == IF n < 0 THEN -n ELSE n

Rat(n, d) == LET g == GCD(Abs(n), d) IN <<n \div g, d \div g>>

RAdd(p, q) == Rat(p[1] * q[2] + q[1] * p[2], p[2] * q[2])
RMul(p, q) == Rat(p[1] * q[1], p[2] * q[2])
RDivInt(p, k) == Rat(p[1], p[2] * k)
RLess(p, q) == p[1] * q[2] < q[1] * p[2]
RLeq(p, q) == p[1] * q[2] <= q[1] * p[2]
RInt(k) == <<k, 1>>
RZero == <<0, 1>>
ROne == <<1, 1>>
RHalf == <<1, 2>>

-----------------------------------------------------------------------------
(* Python values.  kind: none, str, int, float, bool, list, dict.          *)
(* s: the text of a str; n: the number of an int/float/bool, the length    *)
(* of a list; items: the entries of a dict.                                *)

PyNone == [kind |-> "none", s |-> "", n |-> 0, items |-> <<>>]
PyStr(t) == [kind |-> "str", s |-> t, n |-> 0, items |-> <<>>]
PyInt(k) == [kind |-> "int", s |-> "", n |-> k, items |-> <<>>]
PyFloat(k) == [kind |-> "float", s |-> "", n |-> k, items |-> <<>>]
PyBool(b) == [kind |-> "bool", s |-> "", n |-> IF b THEN 1 ELSE 0, items |-> <<>>]
PyList(k) == [kind |-> "list", s |-> "", n |-> k, items |-> <<>>]
PyDict(f) == [kind |-> "dict", s |-> "", n |-> 0, items |-> f]

\* isinstance(data, t): bool is a subclass of int in Python
IsInstance(data, t) ==
    CASE t = "str" -> data.kind = "str"
      [] t = "int" -> data.kind \in {"int", "bool"}
      [] t = "number" -> data.kind \in {"int", "bool", "float"}
      [] t = "bool" -> data.kind = "bool"
      [] t = "list" -> data.kind = "list"
      [] t = "dict" -> data.kind = "dict"
      [] OTHER -> FALSE

\* hasattr(data, '__len__') and len(data)
HasLen(data) == data.kind \in {"str", "list", "dict"}
PyLen(data) ==
    CASE data.kind = "str" -> Len(data.s)
      [] data.kind = "dict" -> Cardinality(DOMAIN data.items)
      [] OTHER -> data.n

\* Python ==: numbers compare by value across int, float and bool
PyEq(a, b) ==
    IF IsInstance(a, "number") /\ IsInstance(b, "number") THEN a.n = b.n
    ELSE a = b

\* dict.get(name): None when the key is absent
DictGet(d, name) == IF name \in DOMAIN d THEN d[name] ELSE PyNone

-----------------------------------------------------------------------------
(* Constraint validator: InputTypeConstraint.  Optional fields are         *)
(* sequences of length 0 (None) or 1.                                      *)

ValidTypes == {"string", "integer", "float", "boolean", "array", "object",
               "image", "audio", "video", "file", "url", "email", "phone"}

\* re.match(pattern, text) on the patterns of the model:
\* "match", "nomatch", or "error" (re.error: the pattern does not compile)
ReMatch(pattern, text) ==
    CASE pattern = "[a-z]+" ->
           IF text \in {"ok", "task"} THEN "match" ELSE "nomatch"
      [] pattern = "[" -> "error"
      [] OTHER -> "nomatch"

check_type(c, data) ==
    CASE c.data_type = "integer" -> IsInstance(data, "int")
      [] c.data_type = "float" -> IsInstance(data, "number")
      [] c.data_type = "boolean" -> IsInstance(data, "bool")
      [] c.data_type = "array" -> IsInstance(data, "list")
      [] c.data_type = "object" -> IsInstance(data, "dict")
      [] c.data_type \in ValidTypes -> IsInstance(data, "str")
      [] OTHER -> TRUE

check_length(c, data) ==
    IF ~HasLen(data) THEN TRUE
    ELSE IF c.min_length # <<>> /\ PyLen(data) < c.min_length[1] THEN FALSE
    ELSE IF c.max_length # <<>> /\ PyLen(data) > c.max_length[1] THEN FALSE
    ELSE TRUE

check_pattern(c, data) ==
    IF c.pattern = "" \/ ~IsInstance(data, "str") THEN TRUE
    ELSE ReMatch(c.pattern, data.s) = "match"

\* a range check whose bounds are exclusive
check_value_range_exclusive(c, data) ==
    IF ~IsInstance(data, "number") THEN TRUE
    ELSE IF c.min_value # <<>> /\ data.n <= c.min_value[1] THEN FALSE
    ELSE IF c.max_value # <<>> /\ data.n >= c.max_value[1] THEN FALSE
    ELSE TRUE

\* InputTypeConstraint._check_value_range
check_value_range(c, data) ==
    IF ~IsInstance(data, "number") THEN TRUE
    ELSE IF c.min_value # <<>> /\ data.n < c.min_value[1] THEN FALSE
    ELSE IF c.max_value # <<>> /\ data.n > c.max_value[1] THEN FALSE
    ELSE TRUE

check_allowed_values(c, data) ==
    IF c.allowed_values = {} THEN TRUE
    ELSE \E a \in c.allowed_values : PyEq(data, a)

\* a validate that goes on to the checks with a missing value that is not required
validate_checks_missing(c, data) ==
    IF c.required /\ data.kind = "none" THEN FALSE
    ELSE IF ~check_type(c, data) THEN FALSE
    ELSE IF ~check_length(c, data) THEN FALSE
    ELSE IF ~check_pattern(c, data) THEN FALSE
    ELSE IF ~check_value_range(c, data) THEN FALSE
    ELSE IF ~check_allowed_values(c, data) THEN FALSE
    ELSE TRUE

\* InputTypeConstraint.validate
validate(c, data) ==
    IF c.required /\ data.kind = "none" THEN FALSE
    ELSE IF data.kind = "none" THEN TRUE
    ELSE IF ~check_type(c, data) THEN FALSE
    ELSE IF ~check_length(c, data) THEN FALSE
    ELSE IF ~check_pattern(c, data) THEN FALSE
    ELSE IF ~check_value_range(c, data) THEN FALSE
    ELSE IF ~check_allowed_values(c, data) THEN FALSE
    ELSE TRUE

\* get_error_message: <<>> (None) or one message, [field, reason]; truthy(o) is
\* Python's truth of an optional number: set and not zero
Truthy(o) == o # <<>> /\ o[1] # 0

Message(c, reason) == <<[field |-> c.name, reason |-> reason]>>

\* a get_error_message without the closing fallback: None when no branch returns
get_error_message_no_fallback(c, data) ==
    IF validate(c, data) THEN <<>>
    ELSE IF c.required /\ data.kind = "none" THEN Message(c, "required")
    ELSE IF ~check_type(c, data) THEN Message(c, "type")
    ELSE IF ~check_length(c, data) /\ Truthy(c.min_length) /\ Truthy(c.max_length)
    THEN Message(c, "length between")
    ELSE IF ~check_length(c, data) /\ Truthy(c.min_length) THEN Message(c, "length min")
    ELSE IF ~check_length(c, data) /\ Truthy(c.max_length) THEN Message(c, "length max")
    ELSE IF ~check_pattern(c, data) THEN Message(c, "pattern")
    ELSE IF ~check_value_range(c, data) /\ Truthy(c.min_value) /\ Truthy(c.max_value)
    THEN Message(c, "value between")
    ELSE IF ~check_value_range(c, data) /\ Truthy(c.min_value) THEN Message(c, "value min")
    ELSE IF ~check_value_range(c, data) /\ Truthy(c.max_value) THEN Message(c, "value max")
    ELSE IF ~check_allowed_values(c, data) THEN Message(c, "allowed")
    ELSE <<>>

\* InputTypeConstraint.get_error_message
get_error_message(c, data) ==
    IF validate(c, data) THEN <<>>
    ELSE IF c.required /\ data.kind = "none" THEN Message(c, "required")
    ELSE IF ~check_type(c, data) THEN Message(c, "type")
    ELSE IF ~check_length(c, data) /\ Truthy(c.min_length) /\ Truthy(c.max_length)
    THEN Message(c, "length between")
    ELSE IF ~check_length(c, data) /\ Truthy(c.min_length) THEN Message(c, "length min")
    ELSE IF ~check_length(c, data) /\ Truthy(c.max_length) THEN Message(c, "length max")
    ELSE IF ~check_pattern(c, data) THEN Message(c, "pattern")
    ELSE IF ~check_value_range(c, data) /\ Truthy(c.min_value) /\ Truthy(c.max_value)
    THEN Message(c, "value between")
    ELSE IF ~check_value_range(c, data) /\ Truthy(c.min_value) THEN Message(c, "value min")
    ELSE IF ~check_value_range(c, data) /\ Truthy(c.max_value) THEN Message(c, "value max")
    ELSE IF ~check_allowed_values(c, data) THEN Message(c, "allowed")
    ELSE Message(c, "generic")

\* InputConstraintSet.get_all_errors: the messages of the failing fields, in order
RECURSIVE get_all_errors(_, _)
get_all_errors(constraints, data) ==
    IF constraints = <<>> THEN <<>>
    ELSE get_error_message(Head(constraints), DictGet(data, Head(constraints).name))
           \o get_all_errors(Tail(constraints), data)

\* the index of the last constraint of the list that is named name
LastNamed(constraints, name) ==
    CHOOSE i \in DOMAIN constraints :
        /\ constraints[i].name = name
        /\ \A j \in DOMAIN constraints : constraints[j].name = name => j <= i

\* InputConstraintSet.validate: the dict results, keyed by constraint name; the
\* loop assigns results[constraint.name] for every constraint in order, so the
\* result of the last constraint with a name is the one the dict keeps
set_validate(constraints, data) ==
    [name \in {constraints[i].name : i \in DOMAIN constraints} |->
        validate(constraints[LastNamed(constraints, name)], DictGet(data, name))]

\* InputConstraintSet.is_valid: all(self.validate(data).values())
is_valid(constraints, data) ==
    \A name \in DOMAIN set_validate(constraints, data) :
        set_validate(constraints, data)[name]

\* A constraint with every optional field unset
Constraint(name, data_type) ==
    [name |-> name, data_type |-> data_type, required |-> TRUE,
     min_length |-> <<>>, max_length |-> <<>>, pattern |-> "",
     allowed_values |-> {}, min_value |-> <<>>, max_value |-> <<>>]

-----------------------------------------------------------------------------
(* Output constraints: OutputConstraintSet (app/core/constraint/output.py) *)
(* following the validation order of the Constraint Validator.             *)

output_validate(c, data) ==
    IF c.required /\ data.kind = "none" THEN FALSE
    ELSE IF data.kind = "none" THEN TRUE
    ELSE IF ~(CASE c.data_type = "integer" -> data.kind = "int"
                [] c.data_type = "float" -> data.kind \in {"int", "float"}
                [] c.data_type = "boolean" -> data.kind = "bool"
                [] c.data_type = "array" -> data.kind = "list"
                [] c.data_type = "object" -> data.kind = "dict"
                [] OTHER -> data.kind = "str") THEN FALSE
    ELSE IF HasLen(data) /\ c.min_length # <<>> /\ PyLen(data) < c.min_length[1] THEN FALSE
    ELSE IF HasLen(data) /\ c.max_length # <<>> /\ PyLen(data) > c.max_length[1] THEN FALSE
    ELSE IF data.kind = "str" /\ c.pattern # "" /\ ReMatch(c.pattern, data.s) # "match" THEN FALSE
    ELSE IF data.kind \in {"int", "float"} /\ c.min_value # <<>> /\ data.n < c.min_value[1] THEN FALSE
    ELSE IF data.kind \in {"int", "float"} /\ c.max_value # <<>> /\ data.n > c.max_value[1] THEN FALSE
    ELSE IF c.allowed_values # {} /\ data \notin c.allowed_values THEN FALSE
    ELSE TRUE

output_is_valid(constraints, data) ==
    \A i \in 1..Len(constraints) :
        output_validate(constraints[i], DictGet(data, constraints[i].name))

\* one message per failing field, in constraint order
RECURSIVE output_get_all_errors(_, _)
output_get_all_errors(constraints, data) ==
    IF constraints = <<>> THEN <<>>
    ELSE (IF output_validate(Head(constraints), DictGet(data, Head(constraints).name))
          THEN <<>> ELSE Message(Head(constraints), "invalid"))
           \o output_get_all_errors(Tail(constraints), data)

-----------------------------------------------------------------------------
(* The backend: what one single-shot generate call can answer.             *)

Replies == {[text |-> "", tokens_used |-> 2],
            [text |-> "0.3", tokens_used |-> 2],
            [text |-> "0.8", tokens_used |-> 2]}

\* a strip that leaves the text as it is
StripNothing(text) == text

\* str.strip() on the texts of the model
Strip(text) ==
    CASE text \in {" ", "  "} -> ""
      [] text = " ok " -> "ok"
      [] OTHER -> text

\* float(text): <<value>> or <<>> (ValueError)
ParseFloat(text) ==
    CASE text = "0.3" -> <<Rat(3, 10)>>
      [] text = "0.8" -> <<Rat(8, 10)>>
      [] OTHER -> <<>>

\* max(0.0, min(1.0, score))
Clamp(score) ==
    IF RLess(score, RZero) THEN RZero
    ELSE IF RLess(ROne, score) THEN ROne
    ELSE score

\* an _llm_evaluation that scores an unparsable reply 0
llm_evaluation_strict(reply) ==
    LET parsed == ParseFloat(Strip(reply.text))
    IN  IF parsed = <<>> THEN RZero ELSE Clamp(parsed[1])

\* OutputCriterion._llm_evaluation on a reply of the backend
llm_evaluation(reply) ==
    LET parsed == ParseFloat(Strip(reply.text))
    IN  IF parsed = <<>> THEN RHalf ELSE Clamp(parsed[1])

\* self.weights.get(criterion.name, criterion.weight)
effective_weight(cfg, criterion) ==
    IF criterion.name \in DOMAIN cfg.weights THEN cfg.weights[criterion.name]
    ELSE criterion.weight

\* total_score / total_weight if total_weight > 0 else 0.0
final_score(total_score, total_weight) ==
    IF RLess(RZero, total_weight)
    THEN Rat(total_score[1] * total_weight[2], total_score[2] * total_weight[1])
    ELSE RZero

-----------------------------------------------------------------------------
(* Agent configurations of the model *)

TopicConstraint ==
    [Constraint("topic", "string") EXCEPT !.min_length = <<1>>, !.max_length = <<200>>]

Accuracy == [name |-> "accuracy", weight |-> ROne]

Clarity == [name |-> "clarity", weight |-> RHalf]

Inputs == {PyStr("task"), PyStr("")}

\* Agents are configured with both constraint lists or with neither
Configs ==
    {[max_retries |-> r, enable_auto_optimization |-> o,
      input_constraints |-> cs, output_constraints |-> cs,
      criteria |-> cr, weights |-> <<>>, min_score |-> Rat(4, 5),
      llm_max_retries |-> l] :
        r \in 0..MaxAgentRetries, o \in BOOLEAN, cs \in {<<>>, <<TopicConstraint>>},
        cr \in {<<>>, <<Accuracy>>}, l \in 0..MaxLLMRetries}

\* the Agent configuration around an invoker that is called directly
PlainConfig ==
    [max_retries |-> 0, enable_auto_optimization |-> FALSE,
     input_constraints |-> <<>>, output_constraints |-> <<>>,
     criteria |-> <<>>, weights |-> <<>>, min_score |-> Rat(4, 5),
     llm_max_retries |-> 0]

InvokerConfigs ==
    {[PlainConfig EXCEPT !.llm_max_retries = l] : l \in 0..MaxInvokerRetries}

\* what the backend API answers: content is <<text>>, or <<>> for a reply without
\* text (message.content is None, no 'response' key); tokens_used is the usage
\* it reports (0 when it reports none)
BackendReplies ==
    {[content |-> t, tokens_used |-> n] :
        t \in {<<>>, <<"">>, <<" ">>, <<"ok">>}, n \in {0, 2}}

\* Agents whose criterion has two metrics, without constraints
ScoreConfigs ==
    {[max_retries |-> r, enable_auto_optimization |-> o,
      input_constraints |-> <<>>, output_constraints |-> <<>>,
      criteria |-> <<Accuracy, Clarity>>, weights |-> <<>>, min_score |-> Rat(4, 5),
      llm_max_retries |-> l] :
        r \in 0..1, o \in BOOLEAN, l \in 0..MaxLLMRetries}

\* Agents with one metric and no constraints, for the concurrent callers
ConcConfigs ==
    {[max_retries |-> r, enable_auto_optimization |-> o,
      input_constraints |-> <<>>, output_constraints |-> <<>>,
      criteria |-> <<Accuracy>>, weights |-> <<>>, min_score |-> Rat(4, 5),
      llm_max_retries |-> l] :
        r \in {1}, o \in BOOLEAN, l \in {1}}

-----------------------------------------------------------------------------
(* Initial state: AgentBase.__init__ and LLMBase.__init__ *)

NoPrompt == [description |-> "", constraint_info |-> FALSE]

\* the locals of a caller that has not called execute yet
IdleFrame ==
    [pc |-> "idle", phase |-> "", input |-> PyNone, prompt |-> NoPrompt, attempt |-> 0,
     output |-> "", idx |-> 0, total_score |-> RZero, total_weight |-> RZero,
     elapsed |-> 0]

\* the locals after the call has ended: its input and its last output stay visible
EndFrame(fr) == [IdleFrame EXCEPT !.input = fr.input, !.output = fr.output]

\* how a call ended: kind none (not ended), returned (value) or raised (error and
\* the messages it carries); began is the number of the step that started the call
NoResult == [kind |-> "none", value |-> "", error |-> "", messages |-> <<>>, began |-> 0]

\* no direct call on the invoker yet: op is the method called, pc where it is
\* suspended, events what it has done so far (<<kind, n>> pairs), reply the
\* content of the last answer of the backend, result how it ended
NoCall ==
    [op |-> "none", pc |-> "idle", attempt |-> 0, last_exception |-> <<>>,
     events |-> <<>>, reply |-> <<>>, result |-> [kind |-> "none", text |-> "", ok |-> FALSE, error |-> <<>>]]

\* LLMFactoryConfig with its defaults: has_api_key is the truthiness of api_key
DefaultFactoryConfig ==
    [preferred_mode |-> "local", has_api_key |-> FALSE, fallback_to_cloud |-> TRUE]

FactoryConfigs ==
    {[preferred_mode |-> pm, has_api_key |-> k, fallback_to_cloud |-> fb] :
        pm \in {"local", "cloud", "auto"}, k \in BOOLEAN, fb \in BOOLEAN}

\* LLMFactory.__init__: no instance of either kind (0 stands for None; an invoker
\* is named by the number of its construction), no current mode; constructed
\* counts the invokers constructed so far
NewFactory ==
    [config |-> DefaultFactoryConfig, local_llm |-> 0, cloud_llm |-> 0,
     current_mode |-> "none", constructed |-> 0]

\* no call on the factory yet: op is the method called, mode the policy it
\* applies, pc the health check it awaits, before the current_mode when it
\* started, events what it has done so far, result how it ended
NoFactoryCall ==
    [op |-> "none", pc |-> "idle", mode |-> "", before |-> "none", events |-> <<>>,
     result |-> [kind |-> "none", llm |-> 0, error |-> ""]]

\* no function is called directly
NoProbe == [op |-> "none"]

\* a fresh Agent with one of the configurations cfgs, on a fresh invoker
AgentInit(cfgs) ==
    /\ config \in cfgs
    /\ status = "idle"
    /\ retry_count = 0
    /\ execution_history = <<>>
    /\ performance_metrics =
         [total_executions |-> 0, successful_executions |-> 0,
          average_score |-> RZero, average_response_time |-> RZero]
    /\ total_tokens_used = 0
    /\ total_requests = 0
    /\ frame = [c \in Callers |-> IdleFrame]
    /\ log = [c \in Callers |-> <<>>]
    /\ result = [c \in Callers |-> NoResult]
    /\ steps = 0
    /\ is_loaded = FALSE
    /\ llm_call = NoCall
    /\ factory = NewFactory
    /\ factory_call = NoFactoryCall
    /\ probe = NoProbe

Init == AgentInit(Configs)

-----------------------------------------------------------------------------
(* AgentBase: the synchronous pieces of execute *)

\* the mapping _validate_input/_validate_output validate: a dict as it is,
\* any other value under the name of every constraint
AsDict(constraints, data) ==
    IF data.kind = "dict" THEN data.items
    ELSE [name \in {constraints[i].name : i \in 1..Len(constraints)} |-> data]

\* a _validate_input that never raises
validate_input_skipped(cfg, input_data) == TRUE

\* _validate_input: TRUE when no ValueError is raised
validate_input(cfg, input_data) ==
    IF cfg.input_constraints = <<>> THEN TRUE
    ELSE is_valid(cfg.input_constraints, AsDict(cfg.input_constraints, input_data))

\* the messages the ValueError of _validate_input carries
input_errors(cfg, input_data) ==
    get_all_errors(cfg.input_constraints, AsDict(cfg.input_constraints, input_data))

\* a _validate_output that never raises
validate_output_skipped(cfg, output) == TRUE

\* _validate_output: TRUE when no ValueError is raised
validate_output(cfg, output) ==
    IF cfg.output_constraints = <<>> THEN TRUE
    ELSE output_is_valid(cfg.output_constraints, AsDict(cfg.output_constraints, output))

\* the messages the ValueError of _validate_output carries
output_errors(cfg, output) ==
    output_get_all_errors(cfg.output_constraints, AsDict(cfg.output_constraints, output))

\* _build_prompt: the configured task description, with the constraint summaries
build_prompt(cfg) ==
    [description |-> "config",
     constraint_info |-> cfg.input_constraints # <<>> \/ cfg.output_constraints # <<>>]

\* the prompt _optimize_prompt builds from the backend's improved description
optimized_prompt(text) == [description |-> Strip(text), constraint_info |-> FALSE]

\* a retry decision that compares retry_count <= max_retries
needs_retry_inclusive(cfg, rc, quality_score) ==
    RLess(quality_score, cfg.min_score) /\ rc <= cfg.max_retries

\* the retry decision of execute
needs_retry(cfg, rc, quality_score) ==
    RLess(quality_score, cfg.min_score) /\ rc < cfg.max_retries

\* _update_performance_metrics: the dict afterwards and the exception raised, if any.
\* The statements run in order, so an exception keeps the earlier assignments.
update_performance_metrics(pm, cfg, quality_score, response_time, tokens_used) ==
    LET n == pm.total_executions
        m1 == IF RLeq(cfg.min_score, quality_score)
              THEN [pm EXCEPT !.successful_executions = @ + 1] ELSE pm
        m2 == [m1 EXCEPT !.average_score =
                 RDivInt(RAdd(RMul(@, RInt(n - 1)), quality_score), n)]
        m3 == [m2 EXCEPT !.average_response_time =
                 RDivInt(RAdd(RMul(@, RInt(n - 1)), RInt(response_time)), n)]
        total == m3.total_tokens_used + tokens_used
        m4 == [k \in DOMAIN m3 \cup {"average_tokens_per_execution"} |->
                 IF k = "total_tokens_used" THEN total
                 ELSE IF k = "average_tokens_per_execution" THEN Rat(total, n)
                 ELSE m3[k]]
    IN  IF n = 0 THEN [metrics |-> m1, error |-> "ZeroDivisionError"]
        ELSE IF "total_tokens_used" \notin DOMAIN pm
        THEN [metrics |-> m3, error |-> "KeyError"]
        ELSE [metrics |-> m4, error |-> ""]

-----------------------------------------------------------------------------
(* How an execute call ends or suspends.  Each operator fixes status,      *)
(* frame, log and result (and what its comment names); fr is the caller's  *)
(* frame and l the log of the call so far.                                 *)

\* an except clause that re-raises without setting the status
Raise_keeps_status(c, fr, err, messages, l) ==
    /\ UNCHANGED status
    /\ frame' = [frame EXCEPT ![c] = EndFrame(fr)]
    /\ log' = [log EXCEPT ![c] = l \o <<"raise">>]
    /\ result' = [result EXCEPT ![c] =
                    [@ EXCEPT !.kind = "raised", !.error = err, !.messages = messages]]

\* except Exception: self.status = ERROR; raise
Raise(c, fr, err, messages, l) ==
    /\ status' = "error"
    /\ frame' = [frame EXCEPT ![c] = EndFrame(fr)]
    /\ log' = [log EXCEPT ![c] = l \o <<"raise">>]
    /\ result' = [result EXCEPT ![c] =
                    [@ EXCEPT !.kind = "raised", !.error = err, !.messages = messages]]

\* return output
Return(c, fr, text, l) ==
    /\ frame' = [frame EXCEPT ![c] = EndFrame(fr)]
    /\ log' = [log EXCEPT ![c] = l \o <<"return">>]
    /\ result' = [result EXCEPT ![c] = [@ EXCEPT !.kind = "returned", !.value = text]]

\* await self.llm.generate_with_retry(prompt): the first generate call is issued
StartGenerate(c, fr, phase, prompt, l) ==
    /\ frame' = [frame EXCEPT ![c] =
                   [fr EXCEPT !.pc = "generate", !.phase = phase,
                              !.prompt = prompt, !.attempt = 0]]
    /\ log' = [log EXCEPT ![c] = l \o <<"gwr", "generate">>]

\* _optimize_and_retry up to its first await; status and the metrics stay
OptimizeAndRetry(c, fr, l) ==
    /\ UNCHANGED <<status, performance_metrics, result>>
    /\ IF config.enable_auto_optimization
       THEN /\ frame' = [frame EXCEPT ![c] = [fr EXCEPT !.pc = "optimize"]]
            /\ log' = [log EXCEPT ![c] = l \o <<"optimize_call">>]
       ELSE StartGenerate(c, fr, "repair", build_prompt(config), l)

\* the acceptance branch of execute: update the metrics, go idle, reset
\* retry_count, return output
Accept(c, fr, quality_score, tokens_used, l) ==
    LET upd == update_performance_metrics(performance_metrics, config, quality_score,
                                          fr.elapsed, tokens_used)
    IN  /\ performance_metrics' = upd.metrics
        /\ IF upd.error # ""
           THEN /\ Raise(c, fr, upd.error, <<>>, l \o <<"update_metrics">>)
                /\ UNCHANGED retry_count
           ELSE /\ status' = "idle"
                /\ retry_count' = 0
                /\ Return(c, fr, fr.output, l \o <<"update_metrics">>)

\* execute from the token statistics on: the record, the retry decision and
\* what follows it; fixes execution_history, retry_count and the metrics too
AfterScore(c, fr, quality_score, tokens_used, l) ==
    LET scored == l \o <<IF RLess(quality_score, config.min_score)
                           THEN "score_low" ELSE "score_ok", "record">>
    IN  /\ execution_history' = Append(execution_history,
             [input |-> fr.input, output |-> fr.output, quality_score |-> quality_score,
              response_time |-> fr.elapsed, retry_count |-> retry_count,
              tokens_used |-> tokens_used])
        /\ IF needs_retry(config, retry_count, quality_score)
           THEN /\ retry_count' = retry_count + 1
                /\ OptimizeAndRetry(c, fr, scored \o <<"retry">>)
           ELSE Accept(c, fr, quality_score, tokens_used, scored)

\* return result.text in _optimize_and_retry, which execute returns as it is
ReturnRepaired(c, fr, text) ==
    /\ Return(c, fr, text, log[c])
    /\ UNCHANGED <<status, retry_count, performance_metrics, execution_history>>

\* OutputCriterion.evaluate after one metric is scored
ScoreContinue(c, fr, score, tokens_used, l) ==
    LET criterion == config.criteria[fr.idx]
        weight == effective_weight(config, criterion)
        ts == RAdd(fr.total_score, RMul(score, weight))
        tw == RAdd(fr.total_weight, weight)
    IN  IF fr.idx < Len(config.criteria)
        THEN /\ frame' = [frame EXCEPT ![c] =
                            [fr EXCEPT !.idx = @ + 1, !.total_score = ts, !.total_weight = tw]]
             /\ log' = [log EXCEPT ![c] = l \o <<"score_call">>]
             /\ UNCHANGED <<status, retry_count, performance_metrics,
                            execution_history, result>>
        ELSE AfterScore(c, fr, final_score(ts, tw), tokens_used, l)

\* LLMBase._update_token_usage, called by a generate that succeeds
UpdateTokenUsage(tokens) ==
    /\ total_tokens_used' = total_tokens_used + tokens
    /\ total_requests' = total_requests + 1

\* the time an awaited call or sleep took
Tick(fr, n) == [fr EXCEPT !.elapsed = @ + n]

-----------------------------------------------------------------------------
(* Actions *)

\* every step of an execute call counts towards the bound of the model
TakeStep == steps < MaxSteps /\ steps' = steps + 1

AllIdle == \A c \in Callers : frame[c].pc = "idle"

BeginEvent == CASE status = "idle" -> "begin_idle"
                [] status = "busy" -> "begin_busy"
                [] OTHER -> "begin_error"

\* an execute that refuses to run on an Agent in status error
CanExecute_unless_error(st) == st # "error"

\* execute checks nothing before it sets the status to busy
CanExecute(st) == TRUE

\* an execute that does not count itself
count_execution_skipped(pm) == pm

\* self.performance_metrics['total_executions'] += 1
count_execution(pm) == [pm EXCEPT !.total_executions = @ + 1]

\* execute from its first line to the first await (or to the input ValueError)
BeginExecute(c, input_data) ==
    /\ frame[c].pc = "idle"
    /\ CanExecute(status)
    /\ TakeStep
    /\ UNCHANGED backend_vars
    /\ performance_metrics' = count_execution(performance_metrics)
    /\ LET fr == [IdleFrame EXCEPT !.input = input_data]
           l == <<BeginEvent, "validate_input">>
           began == [result EXCEPT ![c] = [NoResult EXCEPT !.began = steps + 1]]
       IN  IF ~validate_input(config, input_data)
           THEN /\ status' = "error"
                /\ frame' = [frame EXCEPT ![c] = EndFrame(fr)]
                /\ log' = [log EXCEPT ![c] = l \o <<"raise">>]
                /\ result' = [began EXCEPT ![c] =
                                [@ EXCEPT !.kind = "raised", !.error = "ValueError: input",
                                          !.messages = input_errors(config, input_data)]]
           ELSE /\ status' = "busy"
                /\ result' = began
                /\ StartGenerate(c, fr, "first", build_prompt(config), l)
    /\ UNCHANGED <<config, retry_count, execution_history,
                   total_tokens_used, total_requests>>

\* the awaited generate of generate_with_retry succeeds
GenerateReturns(c, reply) ==
    /\ frame[c].pc = "generate"
    /\ TakeStep
    /\ UNCHANGED backend_vars
    /\ UpdateTokenUsage(reply.tokens_used)
    /\ LET fr == [Tick(frame[c], 1) EXCEPT !.output = reply.text]
           tokens == total_tokens_used + reply.tokens_used
       IN  IF fr.phase = "repair"
           THEN ReturnRepaired(c, fr, reply.text)
           ELSE IF ~validate_output(config, PyStr(reply.text))
           THEN /\ Raise(c, fr, "ValueError: output",
                         output_errors(config, PyStr(reply.text)),
                         log[c] \o <<"validate_output">>)
                /\ UNCHANGED <<retry_count, performance_metrics, execution_history>>
           ELSE IF config.criteria = <<>>
           THEN AfterScore(c, fr, RHalf, tokens,
                           log[c] \o <<"validate_output", "evaluate">>)
           ELSE /\ frame' = [frame EXCEPT ![c] =
                               [fr EXCEPT !.pc = "score", !.idx = 1,
                                          !.total_score = RZero, !.total_weight = RZero]]
                /\ log' = [log EXCEPT ![c] =
                             @ \o <<"validate_output", "evaluate", "score_call">>]
                /\ UNCHANGED <<status, retry_count, performance_metrics,
                               execution_history, result>>
    /\ UNCHANGED config

\* a generate_with_retry that always has an attempt left
attempts_left_always(cfg, attempt) == TRUE

\* if attempt < self.config.max_retries, in the last round of the loop of
\* generate_with_retry: another attempt follows the failed one
attempts_left(cfg, attempt) == attempt < cfg.llm_max_retries

\* the awaited generate of generate_with_retry raises: back off and try again,
\* or raise the last exception when no attempt is left
GenerateRaises(c) ==
    /\ frame[c].pc = "generate"
    /\ TakeStep
    /\ UNCHANGED backend_vars
    /\ IF attempts_left(config, frame[c].attempt)
       THEN /\ frame' = [frame EXCEPT ![c] = [Tick(@, 1) EXCEPT !.pc = "sleep"]]
            /\ log' = [log EXCEPT ![c] = @ \o <<"generate_failed", "sleep">>]
            /\ UNCHANGED <<status, result>>
       ELSE Raise(c, Tick(frame[c], 1), "Exception: generate", <<>>,
                  log[c] \o <<"generate_failed">>)
    /\ UNCHANGED <<config, retry_count, execution_history, performance_metrics,
                   total_tokens_used, total_requests>>

\* asyncio.sleep(2 ** attempt) ends and the next attempt is issued
BackoffSleep(c) ==
    /\ frame[c].pc = "sleep"
    /\ TakeStep
    /\ UNCHANGED backend_vars
    /\ frame' = [frame EXCEPT ![c] =
                   [Tick(@, 2 ^ @.attempt) EXCEPT !.pc = "generate", !.attempt = @ + 1]]
    /\ log' = [log EXCEPT ![c] = @ \o <<"generate">>]
    /\ UNCHANGED <<config, status, retry_count, execution_history, performance_metrics,
                   total_tokens_used, total_requests, result>>

\* the scoring call of _llm_evaluation answers
ScoreReturns(c, reply) ==
    /\ frame[c].pc = "score"
    /\ TakeStep
    /\ UNCHANGED backend_vars
    /\ UpdateTokenUsage(reply.tokens_used)
    /\ ScoreContinue(c, Tick(frame[c], 1), llm_evaluation(reply),
                     total_tokens_used + reply.tokens_used, log[c])
    /\ UNCHANGED config

\* the scoring call of _llm_evaluation raises: the metric scores 0.5
ScoreRaises(c) ==
    /\ frame[c].pc = "score"
    /\ TakeStep
    /\ UNCHANGED backend_vars
    /\ ScoreContinue(c, Tick(frame[c], 1), RHalf, total_tokens_used,
                     log[c] \o <<"score_failed">>)
    /\ UNCHANGED <<config, total_tokens_used, total_requests>>

\* the meta-call of _optimize_prompt answers
OptimizeReturns(c, reply) ==
    /\ frame[c].pc = "optimize"
    /\ TakeStep
    /\ UNCHANGED backend_vars
    /\ UpdateTokenUsage(reply.tokens_used)
    /\ StartGenerate(c, Tick(frame[c], 1), "repair", optimized_prompt(reply.text), log[c])
    /\ UNCHANGED <<config, status, retry_count, execution_history, performance_metrics,
                   result>>

\* a meta-call whose failure leaves _optimize_prompt and ends the call
OptimizeRaises_propagates(c) ==
    /\ frame[c].pc = "optimize"
    /\ TakeStep
    /\ UNCHANGED backend_vars
    /\ Raise(c, Tick(frame[c], 1), "Exception: generate", <<>>,
             log[c] \o <<"optimize_failed">>)
    /\ UNCHANGED <<config, retry_count, execution_history, performance_metrics,
                   total_tokens_used, total_requests>>

\* the meta-call of _optimize_prompt raises: the original prompt is used
OptimizeRaises(c) ==
    /\ frame[c].pc = "optimize"
    /\ TakeStep
    /\ UNCHANGED backend_vars
    /\ StartGenerate(c, Tick(frame[c], 1), "repair", build_prompt(config),
                     log[c] \o <<"optimize_failed">>)
    /\ UNCHANGED <<config, status, retry_count, execution_history, performance_metrics,
                   total_tokens_used, total_requests, result>>

\* a reset_token_usage that leaves the counters of the invoker as they are
reset_token_usage_skipped == UNCHANGED <<total_tokens_used, total_requests>>

\* LLMBase.reset_token_usage
reset_token_usage ==
    /\ total_tokens_used' = 0
    /\ total_requests' = 0

\* reset_metrics
ResetMetrics ==
    /\ performance_metrics' =
         [total_executions |-> 0, successful_executions |-> 0,
          average_score |-> RZero, average_response_time |-> RZero,
          total_tokens_used |-> 0, average_tokens_per_execution |-> RZero]
    /\ execution_history' = <<>>
    /\ reset_token_usage
    /\ UNCHANGED <<config, status, retry_count, frame, log, result, steps>>
    /\ UNCHANGED backend_vars

\* get_status: what it returns; it assigns nothing
get_status ==
    [status |-> status, retry_count |-> retry_count,
     performance_metrics |-> performance_metrics,
     execution_count |-> Len(execution_history)]

\* Python's lst[start:] : a negative start counts from the end, and a start
\* outside the list is clamped to it
SliceFrom(lst, start) ==
    LET n == Len(lst)
        from == IF start < 0 THEN (IF n + start < 0 THEN 0 ELSE n + start)
                ELSE (IF start > n THEN n ELSE start)
    IN  SubSeq(lst, from + 1, n)

\* get_execution_history(limit): self.execution_history[-limit:]
get_execution_history(limit) == SliceFrom(execution_history, 0 - limit)

\* the steps of one caller's execute call
Execute(c) ==
    \/ \E input_data \in Inputs : BeginExecute(c, input_data)
    \/ \E reply \in Replies : GenerateReturns(c, reply)
    \/ GenerateRaises(c)
    \/ BackoffSleep(c)
    \/ \E reply \in Replies : ScoreReturns(c, reply)
    \/ ScoreRaises(c)
    \/ \E reply \in Replies : OptimizeReturns(c, reply)
    \/ OptimizeRaises(c)

\* reset_metrics called between two execute calls
ResetBetweenCalls == AllIdle /\ ResetMetrics

\* One caller: execute calls and reset_metrics follow one another
Next ==
    \/ \E c \in SeqCallers : Execute(c)
    \/ ResetBetweenCalls

Spec == Init /\ [][Next]_vars

\* The same Agent with a criterion of two metrics
ScoreInit == AgentInit(ScoreConfigs)

ScoreSpec == ScoreInit /\ [][Next]_vars

\* Two coroutines call execute on the same Agent (asyncio.gather, create_task):
\* execute takes no lock, so while one call is suspended at an await the event
\* loop may run the other
ConcNext ==
    \/ \E c \in Callers : Execute(c)
    \/ ResetBetweenCalls

ConcInit == AgentInit(ConcConfigs)

ConcSpec == ConcInit /\ [][ConcNext]_vars

-----------------------------------------------------------------------------
(* The invoker called directly: generate_with_retry, health_check,         *)
(* reset_token_usage.  A call is suspended at load_model (pc load in       *)
(* health_check, gen_load in generate), at the backend call of generate    *)
(* (pc backend) or at the backoff sleep (pc sleep).                        *)

TakeInvokerStep == steps < MaxInvokerSteps /\ steps' = steps + 1

\* what a direct call on the invoker leaves alone
InvokerFrame ==
    UNCHANGED <<config, status, retry_count, execution_history, performance_metrics,
                frame, log, result, factory, factory_call, probe>>

Event(call, kind, n) == [call EXCEPT !.events = Append(@, <<kind, n>>)]

\* generate up to its first await: load_model when the model is not loaded
\* (loaded: the value of _is_loaded at this point), the backend call otherwise
EnterGenerate(call, loaded) ==
    [Event(call, "generate", call.attempt) EXCEPT
        !.pc = IF loaded THEN "backend" ELSE "gen_load"]

\* the call ends
EndCall(call, res) == [call EXCEPT !.pc = "idle", !.result = res]

ReturnedResult(text) == [kind |-> "returned", text |-> text, ok |-> FALSE, error |-> <<>>]
ReturnedBool(b) == [kind |-> "returned", text |-> "", ok |-> b, error |-> <<>>]
RaisedError(e) == [kind |-> "raised", text |-> "", ok |-> FALSE, error |-> e]

\* a last_exception that keeps the exception of the first failed attempt
first_exception(call) ==
    IF call.last_exception = <<>> THEN <<call.attempt>> ELSE call.last_exception

\* last_exception = e: the exception of an attempt is named by the attempt
last_exception(call) == <<call.attempt>>

\* generate has raised: the except branches of generate_with_retry and health_check
GenerateFailed(call) ==
    LET failed == Event(call, "failed", call.attempt)
    IN  IF call.op = "health_check"
        THEN EndCall(failed, ReturnedBool(FALSE))
        ELSE IF call.attempt < config.llm_max_retries
        THEN [Event(failed, "sleep", 2 ^ call.attempt) EXCEPT
                 !.pc = "sleep", !.last_exception = last_exception(call)]
        ELSE EndCall([failed EXCEPT !.last_exception = last_exception(call)],
                     RaisedError(last_exception(call)))

\* a generate_with_retry that goes on to the next attempt after a success
GenerateSucceeded_goes_on(call, text) ==
    IF call.op = "generate_with_retry" /\ call.attempt < config.llm_max_retries
    THEN [Event(call, "sleep", 2 ^ call.attempt) EXCEPT !.pc = "sleep"]
    ELSE EndCall(call, ReturnedResult(text))

\* generate has returned result
GenerateSucceeded(call, text) ==
    IF call.op = "health_check"
    THEN EndCall(call, ReturnedBool(Strip(text) # ""))
    ELSE EndCall(call, ReturnedResult(text))

\* await llm.generate_with_retry(prompt)
BeginGenerateWithRetry ==
    /\ llm_call.pc = "idle"
    /\ TakeInvokerStep
    /\ llm_call' = EnterGenerate([NoCall EXCEPT !.op = "generate_with_retry"], is_loaded)
    /\ UNCHANGED <<is_loaded, total_tokens_used, total_requests>>
    /\ InvokerFrame

\* await llm.health_check()
BeginHealthCheck ==
    /\ llm_call.pc = "idle"
    /\ TakeInvokerStep
    /\ llm_call' = IF is_loaded
                   THEN EnterGenerate([NoCall EXCEPT !.op = "health_check"], TRUE)
                   ELSE [NoCall EXCEPT !.op = "health_check", !.pc = "load"]
    /\ UNCHANGED <<is_loaded, total_tokens_used, total_requests>>
    /\ InvokerFrame

\* the awaited load_model has returned (it catches every exception): ok is
\* what it set _is_loaded to
LoadModelReturns(ok) ==
    /\ llm_call.pc \in {"load", "gen_load"}
    /\ TakeInvokerStep
    /\ is_loaded' = ok
    /\ llm_call' = LET loaded == Event(llm_call, "load", IF ok THEN 1 ELSE 0)
                   IN  IF llm_call.pc = "load"
                       THEN EnterGenerate(loaded, ok)
                       ELSE [loaded EXCEPT !.pc = "backend"]
    /\ UNCHANGED <<total_tokens_used, total_requests>>
    /\ InvokerFrame

\* the backend has answered
Answered(call, reply) ==
    [Event(call, "answer", reply.tokens_used) EXCEPT !.reply = reply.content]

\* the backend call of generate answers: the counters are updated, then the
\* GenerationResult is built, which raises when the reply has no text
BackendAnswers(reply) ==
    /\ llm_call.pc = "backend"
    /\ TakeInvokerStep
    /\ UpdateTokenUsage(reply.tokens_used)
    /\ llm_call' = IF reply.content = <<>>
                   THEN GenerateFailed(Answered(llm_call, reply))
                   ELSE GenerateSucceeded(Answered(llm_call, reply), reply.content[1])
    /\ UNCHANGED is_loaded
    /\ InvokerFrame

\* the backend call of generate raises
BackendFails ==
    /\ llm_call.pc = "backend"
    /\ TakeInvokerStep
    /\ llm_call' = GenerateFailed(llm_call)
    /\ UNCHANGED <<is_loaded, total_tokens_used, total_requests>>
    /\ InvokerFrame

\* asyncio.sleep(2 ** attempt) ends: the next attempt
RetrySleepEnds ==
    /\ llm_call.pc = "sleep"
    /\ TakeInvokerStep
    /\ llm_call' = EnterGenerate([llm_call EXCEPT !.attempt = @ + 1], is_loaded)
    /\ UNCHANGED <<is_loaded, total_tokens_used, total_requests>>
    /\ InvokerFrame

\* reset_token_usage, between two calls
ResetTokenUsage ==
    /\ llm_call.pc = "idle"
    /\ total_tokens_used' = 0
    /\ total_requests' = 0
    /\ UNCHANGED <<is_loaded, llm_call, steps>>
    /\ InvokerFrame

InvokerNext ==
    \/ BeginGenerateWithRetry
    \/ BeginHealthCheck
    \/ \E ok \in BOOLEAN : LoadModelReturns(ok)
    \/ \E reply \in BackendReplies : BackendAnswers(reply)
    \/ BackendFails
    \/ RetrySleepEnds
    \/ ResetTokenUsage

InvokerInit == AgentInit(InvokerConfigs)

InvokerSpec == InvokerInit /\ [][InvokerNext]_vars

-----------------------------------------------------------------------------
(* LLMFactory: create_llm and switch_mode.  A call is suspended at the      *)
(* health check of the local invoker (pc local_health) or of the cloud      *)
(* invoker (pc cloud_health); _check_local_health and _check_cloud_health   *)
(* turn a health_check that raises or times out into False.                 *)

TakeSelectorStep == steps < MaxSelectorSteps /\ steps' = steps + 1

\* what a call on the factory leaves alone
SelectorFrame ==
    UNCHANGED <<config, status, retry_count, execution_history, performance_metrics,
                total_tokens_used, total_requests, frame, log, result,
                is_loaded, llm_call, probe>>

\* the modes switch_mode may be called with
Modes == {"local", "cloud", "auto", "hybrid"}

\* a construction guard that constructs a new invoker on every call
AlwaysConstruct(instance) == TRUE

\* if self._local_llm is None / if self._cloud_llm is None
NeedsConstruction(instance) == instance = 0

\* a selection that records the configured policy instead of the kind selected
SelectedPreferred(call, kind) == factory.config.preferred_mode

\* self._current_mode = "local" / "cloud"
SelectedMode(call, kind) == kind

\* an auto mode that falls back to cloud whatever fallback_to_cloud is
AlwaysFallback(fac) == TRUE

\* if self.config.fallback_to_cloud
FallbackEnabled(fac) == fac.config.fallback_to_cloud

FactoryEvent(call, e) == [call EXCEPT !.events = Append(@, e)]

FactoryReturn(call, llm) ==
    [call EXCEPT !.pc = "idle", !.result = [kind |-> "returned", llm |-> llm, error |-> ""]]

FactoryRaise(call, error) ==
    [call EXCEPT !.pc = "idle", !.result = [kind |-> "raised", llm |-> 0, error |-> error]]

\* _create_local_llm up to its await: the pair <<factory, call>> after it
CreateLocal(fac, call) ==
    IF NeedsConstruction(fac.local_llm)
    THEN <<[fac EXCEPT !.local_llm = fac.constructed + 1, !.constructed = @ + 1],
           [FactoryEvent(FactoryEvent(call, "construct_local"), "probe_local")
               EXCEPT !.pc = "local_health"]>>
    ELSE <<fac, [FactoryEvent(call, "probe_local") EXCEPT !.pc = "local_health"]>>

\* how an exception of _create_cloud_llm leaves the call: _create_auto_llm
\* replaces it by the combined error, create_llm and switch_mode let it through
CloudError(call, error) ==
    IF call.op = "create_llm" /\ call.mode \notin {"local", "cloud"}
    THEN FactoryRaise(call, "both unavailable")
    ELSE FactoryRaise(call, error)

\* _create_cloud_llm up to its await, or to the ValueError for the missing key
CreateCloud(fac, call) ==
    IF NeedsConstruction(fac.cloud_llm)
    THEN IF ~fac.config.has_api_key
         THEN <<fac, CloudError(call, "ValueError: api_key")>>
         ELSE <<[fac EXCEPT !.cloud_llm = fac.constructed + 1, !.constructed = @ + 1],
                [FactoryEvent(FactoryEvent(call, "construct_cloud"), "probe_cloud")
                    EXCEPT !.pc = "cloud_health"]>>
    ELSE <<fac, [FactoryEvent(call, "probe_cloud") EXCEPT !.pc = "cloud_health"]>>

\* a create_llm whose auto mode starts with the cloud invoker
DispatchCloudFirst(fac, call) ==
    CASE call.mode = "local" -> CreateLocal(fac, call)
      [] OTHER -> CreateCloud(fac, call)

\* the dispatch of create_llm on preferred_mode: _create_auto_llm starts with
\* _create_local_llm
Dispatch(fac, call) ==
    CASE call.mode = "local" -> CreateLocal(fac, call)
      [] call.mode = "cloud" -> CreateCloud(fac, call)
      [] OTHER -> CreateLocal(fac, call)

\* the dispatch of switch_mode on mode
SwitchDispatch(fac, call) ==
    CASE call.mode = "local" -> CreateLocal(fac, call)
      [] call.mode = "cloud" -> CreateCloud(fac, call)
      [] OTHER -> <<fac, FactoryRaise(call, "ValueError: mode")>>

\* await factory.create_llm(llm_config)
BeginCreateLLM ==
    /\ factory_call.pc = "idle"
    /\ TakeSelectorStep
    /\ LET call == [NoFactoryCall EXCEPT !.op = "create_llm",
                                         !.mode = factory.config.preferred_mode,
                                         !.before = factory.current_mode]
           next == Dispatch(factory, call)
       IN  factory' = next[1] /\ factory_call' = next[2]
    /\ SelectorFrame

\* await factory.switch_mode(mode)
BeginSwitchMode(mode) ==
    /\ factory_call.pc = "idle"
    /\ TakeSelectorStep
    /\ LET call == [NoFactoryCall EXCEPT !.op = "switch_mode", !.mode = mode,
                                         !.before = factory.current_mode]
           next == SwitchDispatch(factory, call)
       IN  factory' = next[1] /\ factory_call' = next[2]
    /\ SelectorFrame

\* the awaited _check_local_health returns ok
LocalHealthReturns(ok) ==
    /\ factory_call.pc = "local_health"
    /\ TakeSelectorStep
    /\ LET next ==
             IF ok
             THEN <<[factory EXCEPT !.current_mode = SelectedMode(factory_call, "local")],
                    FactoryReturn(factory_call, factory.local_llm)>>
             ELSE IF factory_call.op # "create_llm" \/ factory_call.mode = "local"
             THEN <<factory, FactoryRaise(factory_call, "local unavailable")>>
             ELSE IF FallbackEnabled(factory)
             THEN CreateCloud(factory, factory_call)
             ELSE <<factory, FactoryRaise(factory_call, "local unavailable, no fallback")>>
       IN  factory' = next[1] /\ factory_call' = next[2]
    /\ SelectorFrame

\* the awaited _check_cloud_health returns ok
CloudHealthReturns(ok) ==
    /\ factory_call.pc = "cloud_health"
    /\ TakeSelectorStep
    /\ IF ok
       THEN /\ factory' = [factory EXCEPT !.current_mode = SelectedMode(factory_call, "cloud")]
            /\ factory_call' = FactoryReturn(factory_call, factory.cloud_llm)
       ELSE /\ factory' = factory
            /\ factory_call' = CloudError(factory_call, "cloud unavailable")
    /\ SelectorFrame

SelectorNext ==
    \/ BeginCreateLLM
    \/ \E mode \in Modes : BeginSwitchMode(mode)
    \/ \E ok \in BOOLEAN : LocalHealthReturns(ok)
    \/ \E ok \in BOOLEAN : CloudHealthReturns(ok)

SelectorInit ==
    /\ config = PlainConfig
    /\ status = "idle"
    /\ retry_count = 0
    /\ execution_history = <<>>
    /\ performance_metrics =
         [total_executions |-> 0, successful_executions |-> 0,
          average_score |-> RZero, average_response_time |-> RZero]
    /\ total_tokens_used = 0
    /\ total_requests = 0
    /\ frame = [c \in Callers |-> IdleFrame]
    /\ log = [c \in Callers |-> <<>>]
    /\ result = [c \in Callers |-> NoResult]
    /\ steps = 0
    /\ is_loaded = FALSE
    /\ llm_call = NoCall
    /\ factory \in {[NewFactory EXCEPT !.config = fc] : fc \in FactoryConfigs}
    /\ factory_call = NoFactoryCall
    /\ probe = NoProbe

SelectorSpec == SelectorInit /\ [][SelectorNext]_vars

-----------------------------------------------------------------------------
(* The constraint validator called directly: validate and                  *)
(* get_error_message of one constraint on one value.  probe holds the      *)
(* arguments (drawn at the start) and, after the call, what it returned.   *)

MaxBound == 2          \* min_value and max_value range over 0..MaxBound

\* an optional field: <<>> (None) or <<x>>
Opt(S) == {<<>>} \cup {<<x>> : x \in S}

CheckedTypes == {"string", "integer", "float", "boolean", "array", "object", "url"}

\* the constraints of the model: every combination of the fields
Constraints ==
    {[name |-> "x", data_type |-> t, required |-> r,
      min_length |-> lo, max_length |-> hi, pattern |-> p,
      allowed_values |-> a, min_value |-> mn, max_value |-> mx] :
        t \in CheckedTypes, r \in BOOLEAN, lo \in Opt({0, 2}), hi \in Opt({1}),
        p \in {"", "[a-z]+", "["}, a \in {{}, {PyStr("ok"), PyInt(1)}},
        mn \in Opt(0..MaxBound), mx \in Opt(0..MaxBound)}

\* the values of the model: None, strings, integers around the bounds, reals,
\* booleans, lists and a dict
Values ==
    {PyNone, PyStr(""), PyStr("ok"), PyStr("NO"), PyBool(FALSE), PyBool(TRUE),
     PyList(0), PyList(2), PyDict(<<>>), PyFloat(0), PyFloat(MaxBound)}
        \cup {PyInt(k) : k \in (0 - 1)..(MaxBound + 1)}

\* what a direct call of a function leaves alone
ProbeFrame ==
    UNCHANGED <<config, status, retry_count, execution_history, performance_metrics,
                total_tokens_used, total_requests, frame, log, result, steps,
                is_loaded, llm_call, factory, factory_call>>

\* constraint.validate(data)
Validate ==
    /\ probe.op = "none"
    /\ probe' = [probe EXCEPT !.op = "validate",
                              !.ok = validate(probe.constraint, probe.data)]
    /\ ProbeFrame

\* constraint.get_error_message(data)
GetErrorMessage ==
    /\ probe.op = "none"
    /\ probe' = [probe EXCEPT !.op = "get_error_message",
                              !.message = get_error_message(probe.constraint, probe.data)]
    /\ ProbeFrame

ValidatorNext == Validate \/ GetErrorMessage

ValidatorInit ==
    /\ config = PlainConfig
    /\ status = "idle"
    /\ retry_count = 0
    /\ execution_history = <<>>
    /\ performance_metrics =
         [total_executions |-> 0, successful_executions |-> 0,
          average_score |-> RZero, average_response_time |-> RZero]
    /\ total_tokens_used = 0
    /\ total_requests = 0
    /\ frame = [c \in Callers |-> IdleFrame]
    /\ log = [c \in Callers |-> <<>>]
    /\ result = [c \in Callers |-> NoResult]
    /\ steps = 0
    /\ is_loaded = FALSE
    /\ llm_call = NoCall
    /\ factory = NewFactory
    /\ factory_call = NoFactoryCall
    /\ probe \in {[op |-> "none", constraint |-> c, data |-> v, ok |-> FALSE,
                    message |-> <<>>] : c \in Constraints, v \in Values}

ValidatorSpec == ValidatorInit /\ [][ValidatorNext]_vars

-----------------------------------------------------------------------------
(* InputConstraintSet called directly: validate, is_valid and              *)
(* get_all_errors of a list of constraints on a mapping.                   *)

MaxConstraints == 3    \* a ConstraintSet holds 0..MaxConstraints constraints

\* the constraints a set is made of: two share the name x
ConstraintPool ==
    {Constraint("x", "integer"),
     Constraint("x", "string"),
     [Constraint("y", "string") EXCEPT !.required = FALSE, !.min_length = <<1>>],
     Constraint("z", "string")}

ConstraintLists == UNION {[1..n -> ConstraintPool] : n \in 0..MaxConstraints}

\* the mappings of the model: every field is absent or holds a value
Mappings == UNION {[K -> {PyStr("ok"), PyStr(""), PyInt(1)}] : K \in SUBSET {"x", "y", "z"}}

\* constraint_set.validate(data)
SetValidate ==
    /\ probe.op = "none"
    /\ probe' = [probe EXCEPT !.op = "validate",
                              !.results = set_validate(probe.constraints, probe.data)]
    /\ ProbeFrame

\* constraint_set.is_valid(data)
SetIsValid ==
    /\ probe.op = "none"
    /\ probe' = [probe EXCEPT !.op = "is_valid",
                              !.valid = is_valid(probe.constraints, probe.data)]
    /\ ProbeFrame

\* constraint_set.get_all_errors(data)
SetGetAllErrors ==
    /\ probe.op = "none"
    /\ probe' = [probe EXCEPT !.op = "get_all_errors",
                              !.errors = get_all_errors(probe.constraints, probe.data)]
    /\ ProbeFrame

SetNext == SetValidate \/ SetIsValid \/ SetGetAllErrors

SetInit ==
    /\ config = PlainConfig
    /\ status = "idle"
    /\ retry_count = 0
    /\ execution_history = <<>>
    /\ performance_metrics =
         [total_executions |-> 0, successful_executions |-> 0,
          average_score |-> RZero, average_response_time |-> RZero]
    /\ total_tokens_used = 0
    /\ total_requests = 0
    /\ frame = [c \in Callers |-> IdleFrame]
    /\ log = [c \in Callers |-> <<>>]
    /\ result = [c \in Callers |-> NoResult]
    /\ steps = 0
    /\ is_loaded = FALSE
    /\ llm_call = NoCall
    /\ factory = NewFactory
    /\ factory_call = NoFactoryCall
    /\ probe \in {[op |-> "none", constraints |-> cs, data |-> d, results |-> <<>>,
                    valid |-> FALSE, errors |-> <<>>] :
                      cs \in ConstraintLists, d \in Mappings}

SetSpec == SetInit /\ [][SetNext]_vars

-----------------------------------------------------------------------------
(* The quality criterion called directly: CriterionEvaluator.evaluate_output *)
(* on an OutputCriterion, without a backend (llm is None: the heuristic     *)
(* strategy, which never suspends) or with one (one scoring call per        *)
(* metric).  TLA+ strings are ASCII: the Chinese words of the source are    *)
(* written in pinyin, 'zhunquexing' for the metric name of accuracy,        *)
(* 'wanzhengxing' completeness, 'xiangguanxing' relevance, 'yizhixing'      *)
(* consistency, 'qingxidu' clarity, 'zhuanyexing', 'chuangxinxing',         *)
(* 'shiyongxing', 'zongtizhiliang' overall quality; 'cuowu', 'shibai',      *)
(* 'wuxiao', 'buzhengque' for the four error keywords.                      *)

MaxMetrics == 2        \* a criterion is given 0..MaxMetrics metrics

\* keyword in text
Contains(text, keyword) ==
    \E i \in 1..(Len(text) - Len(keyword) + 1) :
        SubSeq(text, i, i + Len(keyword) - 1) = keyword

\* str.lower() on the texts of the model
Lower(text) ==
    CASE text = "ERROR: Invalid" -> "error: invalid"
      [] OTHER -> text

\* len(text.split()): the number of maximal runs of characters that are not blank
WordCount(text) ==
    Cardinality({i \in 1..Len(text) :
        /\ SubSeq(text, i, i) # " "
        /\ (i = 1 \/ SubSeq(text, i - 1, i - 1) = " ")})

\* error_keywords of _simple_evaluation
ErrorKeywords == {"cuowu", "shibai", "wuxiao", "buzhengque"}

\* OutputCriterion._simple_evaluation
simple_evaluation(criterion, output) ==
    IF output.kind # "str" THEN RHalf
    ELSE IF Contains(criterion.name, "zhunquexing")
    THEN (IF \E keyword \in ErrorKeywords : Contains(Lower(output.s), keyword)
          THEN Rat(3, 10) ELSE Rat(8, 10))
    ELSE IF Contains(criterion.name, "wanzhengxing")
    THEN (IF Len(output.s) < 10 THEN Rat(4, 10)
          ELSE IF Len(output.s) > 100 THEN Rat(9, 10)
          ELSE Rat(7, 10))
    ELSE IF Contains(criterion.name, "xiangguanxing") THEN Rat(7, 10)
    ELSE IF Contains(criterion.name, "qingxidu")
    THEN (IF WordCount(output.s) > 5 THEN Rat(8, 10) ELSE Rat(6, 10))
    ELSE Rat(7, 10)

\* the names of common_metrics, in the order of the dict
CommonMetrics ==
    <<"zhunquexing", "wanzhengxing", "xiangguanxing", "yizhixing",
      "qingxidu", "zhuanyexing", "chuangxinxing", "shiyongxing">>

\* OutputCriterion._extract_criteria_from_description
extract_criteria_from_description(description) ==
    LET Matches(name) == Contains(Lower(description), Lower(name))
        matched == SelectSeq(CommonMetrics, Matches)
    IN  IF matched = <<>> THEN <<[name |-> "zongtizhiliang", weight |-> ROne]>>
        ELSE [i \in 1..Len(matched) |-> [name |-> matched[i], weight |-> ROne]]

\* OutputCriterion.__post_init__, for whoever calls it
post_init(criterion) ==
    IF criterion.criteria = <<>>
    THEN [criterion EXCEPT !.criteria = extract_criteria_from_description(criterion.description)]
    ELSE criterion

\* OutputCriterion(description=..., criteria=..., weights=..., min_score=...):
\* the class is a pydantic BaseModel, whose constructor validates and assigns
\* the fields; __post_init__ is a hook of dataclasses that a BaseModel does not
\* call, and nothing in the repository calls it
OutputCriterion(description, criteria, weights, min_score) ==
    [description |-> description, criteria |-> criteria, weights |-> weights,
     min_score |-> min_score]

\* the loop body of evaluate for metric i, scored score
Accumulate(criterion, sums, i, score) ==
    LET weight == effective_weight(criterion, criterion.criteria[i])
    IN  [total_score |-> RAdd(sums.total_score, RMul(score, weight)),
         total_weight |-> RAdd(sums.total_weight, weight)]

\* the sums of evaluate after the first k metrics, scored by the heuristics
RECURSIVE simple_sums(_, _, _)
simple_sums(criterion, output, k) ==
    IF k = 0 THEN [total_score |-> RZero, total_weight |-> RZero]
    ELSE Accumulate(criterion, simple_sums(criterion, output, k - 1), k,
                    simple_evaluation(criterion.criteria[k], output))

\* OutputCriterion.evaluate(output, None)
evaluate_simple(criterion, output) ==
    IF criterion.criteria = <<>> THEN RHalf
    ELSE LET sums == simple_sums(criterion, output, Len(criterion.criteria))
         IN  final_score(sums.total_score, sums.total_weight)

\* OutputCriterion.is_satisfied
is_satisfied(criterion, score) == RLeq(criterion.min_score, score)

\* OutputCriterion.get_feedback: the tier of the text it returns
get_feedback(criterion, score) ==
    IF RLeq(criterion.min_score, score) THEN "good"
    ELSE IF RLeq(Rat(6, 10), score) THEN "needs improvement"
    ELSE "poor"

\* OutputCriterion.get_improvement_suggestions: the advice in order
get_improvement_suggestions(criterion, score) ==
    IF RLess(score, criterion.min_score)
    THEN <<"regenerate">>
           \o (IF RLess(score, Rat(5, 10))
               THEN <<"check constraints", "optimize prompt">> ELSE <<>>)
           \o (IF RLess(score, Rat(7, 10))
               THEN <<"add detail", "fix format">> ELSE <<>>)
    ELSE <<>>

\* evaluate_output after evaluate has returned score: the result it returns
\* and appends to the evaluator's evaluation_history
Evaluated(p, score) ==
    LET evaluation == [score |-> score,
                       is_satisfied |-> is_satisfied(p.criterion, score),
                       feedback |-> get_feedback(p.criterion, score),
                       suggestions |-> get_improvement_suggestions(p.criterion, score)]
    IN  [p EXCEPT !.pc = "done", !.score = <<score>>,
                  !.is_satisfied = evaluation.is_satisfied,
                  !.feedback = evaluation.feedback,
                  !.suggestions = evaluation.suggestions,
                  !.evaluation_history = Append(@, evaluation)]

\* evaluator.evaluate_output(output, criterion) up to the first scoring call,
\* or to its return when there is none
BeginEvaluateOutput ==
    /\ probe.op = "none"
    /\ LET p == [probe EXCEPT !.op = "evaluate_output"]
       IN  probe' =
             IF p.criterion.criteria = <<>> THEN Evaluated(p, RHalf)
             ELSE IF ~p.llm THEN Evaluated(p, evaluate_simple(p.criterion, p.output))
             ELSE [p EXCEPT !.pc = "score", !.idx = 1]
    /\ UNCHANGED <<total_tokens_used, total_requests>>
    /\ UNCHANGED <<config, status, retry_count, execution_history, performance_metrics,
                   frame, log, result, steps, is_loaded, llm_call, factory, factory_call>>

\* evaluate after metric idx is scored: the next scoring call, or the return
MetricScored(p, score) ==
    LET sums == Accumulate(p.criterion, p.sums, p.idx, score)
    IN  IF p.idx < Len(p.criterion.criteria)
        THEN [p EXCEPT !.idx = @ + 1, !.sums = sums]
        ELSE Evaluated([p EXCEPT !.sums = sums],
                       final_score(sums.total_score, sums.total_weight))

\* the scoring call of _llm_evaluation answers
MetricReturns(reply) ==
    /\ probe.op = "evaluate_output" /\ probe.pc = "score"
    /\ probe' = MetricScored(probe, llm_evaluation(reply))
    /\ UpdateTokenUsage(reply.tokens_used)
    /\ UNCHANGED <<config, status, retry_count, execution_history, performance_metrics,
                   frame, log, result, steps, is_loaded, llm_call, factory, factory_call>>

\* the scoring call of _llm_evaluation raises: the metric scores 0.5
MetricRaises ==
    /\ probe.op = "evaluate_output" /\ probe.pc = "score"
    /\ probe' = MetricScored(probe, RHalf)
    /\ UNCHANGED <<total_tokens_used, total_requests>>
    /\ UNCHANGED <<config, status, retry_count, execution_history, performance_metrics,
                   frame, log, result, steps, is_loaded, llm_call, factory, factory_call>>

CriterionNext ==
    \/ BeginEvaluateOutput
    \/ \E reply \in Replies : MetricReturns(reply)
    \/ MetricRaises

\* the metrics a criterion is given: CriterionMetric.weight is within [0, 1]
MetricPool ==
    {[name |-> n, weight |-> w] :
        n \in {"zhunquexing/accuracy", "wanzhengxing"}, w \in {RZero, ROne}}

MetricLists == UNION {[1..n -> MetricPool] : n \in 0..MaxMetrics}

\* the overrides a criterion is given: weights is a Dict[str, float], any float
WeightOverrides ==
    UNION {[K -> {Rat(0 - 1, 2), RZero, ROne}] :
              K \in SUBSET {"zhunquexing/accuracy", "wanzhengxing"}}

Descriptions == {"zhunquexing, wanzhengxing", "be helpful"}

\* OutputCriterion.min_score is within [0, 1]: the default and a lower one
MinScores == {Rat(4, 5), Rat(2, 5)}

Outputs ==
    {PyStr("error: invalid"), PyStr("ERROR: Invalid"), PyStr("the result: cuowu"),
     PyStr("ok"), PyInt(1)}

CriterionInit ==
    /\ config = PlainConfig
    /\ status = "idle"
    /\ retry_count = 0
    /\ execution_history = <<>>
    /\ performance_metrics =
         [total_executions |-> 0, successful_executions |-> 0,
          average_score |-> RZero, average_response_time |-> RZero]
    /\ total_tokens_used = 0
    /\ total_requests = 0
    /\ frame = [c \in Callers |-> IdleFrame]
    /\ log = [c \in Callers |-> <<>>]
    /\ result = [c \in Callers |-> NoResult]
    /\ steps = 0
    /\ is_loaded = FALSE
    /\ llm_call = NoCall
    /\ factory = NewFactory
    /\ factory_call = NoFactoryCall
    /\ probe \in {[op |-> "none", pc |-> "idle",
                    criterion |-> OutputCriterion(d, ms, ws, min_score),
                    given |-> ms, output |-> o, llm |-> l, idx |-> 0,
                    sums |-> [total_score |-> RZero, total_weight |-> RZero],
                    score |-> <<>>, is_satisfied |-> FALSE, feedback |-> "",
                    suggestions |-> <<>>, evaluation_history |-> <<>>] :
                      d \in Descriptions, ms \in MetricLists, ws \in WeightOverrides,
                      o \in Outputs, l \in BOOLEAN, min_score \in MinScores}

CriterionSpec == CriterionInit /\ [][CriterionNext]_vars

-----------------------------------------------------------------------------
(* Reading the log of a call *)

Count(l, e) == Cardinality({i \in DOMAIN l : l[i] = e})
Has(l, e) == \E i \in DOMAIN l : l[i] = e

\* an f is logged after the last e
AfterLast(l, e, f) ==
    \E i \in DOMAIN l : l[i] = f /\ \A j \in DOMAIN l : l[j] = e => j < i

BackendEvents == {"gwr", "generate", "score_call", "optimize_call"}

\* this step starts an execute call of c
BeginsCall(c) == steps' = steps + 1 /\ result'[c].began = steps'

\* this step is a step of c's call in flight
StepsCall(c) == frame[c].pc # "idle" /\ log'[c] # log[c]

\* in this step c's call runs _validate_output on the output just generated
ValidatesOutput(c) ==
    /\ Len(log'[c]) > Len(log[c])
    /\ log'[c][Len(log[c]) + 1] = "validate_output"

\* the ConstraintSets refuse the value
InputRefused(input_data) ==
    /\ config.input_constraints # <<>>
    /\ ~is_valid(config.input_constraints, AsDict(config.input_constraints, input_data))

OutputRefused(text) ==
    /\ config.output_constraints # <<>>
    /\ ~output_is_valid(config.output_constraints,
                        AsDict(config.output_constraints, PyStr(text)))

-----------------------------------------------------------------------------
(* Claims about execute *)

\* C1: when every score of the call is below min_score, a call that returns has
\* invoked generate_with_retry exactly max_retries + 1 times and returns the
\* output generated last.
\* total_executions grows by 1 when the call starts and not again during it.
C1_ExactlyNPlusOneAttempts ==
    [][\A c \in Callers :
          /\ BeginsCall(c) => performance_metrics'.total_executions =
                                performance_metrics.total_executions + 1
          /\ StepsCall(c) => performance_metrics'.total_executions =
                               performance_metrics.total_executions
          /\ (StepsCall(c) /\ result'[c].kind = "returned" /\ ~Has(log'[c], "score_ok"))
                => /\ Count(log'[c], "gwr") = config.max_retries + 1
                   /\ result'[c].value = frame'[c].output]_vars

\* C2: one execute call invokes generate_with_retry at most max_retries + 1 times.
C2_AtMostNPlusOneAttempts ==
    \A c \in Callers : Count(log[c], "gwr") <= config.max_retries + 1

\* a call with max_retries >= 1 that has used all max_retries + 1 invocations
C2_Witness ==
    \E c \in Callers :
        config.max_retries >= 1 /\ Count(log[c], "gwr") = config.max_retries + 1

\* C3: a call that reaches the acceptance update (valid input and output, no
\* backend failure, score sufficient or retries exhausted), on a fresh Agent
\* too, updates PerformanceMetrics, returns its output without raising and
\* leaves status idle and retry_count 0.
C3_AcceptanceReturns ==
    [][\A c \in Callers :
          (/\ StepsCall(c)
           /\ Has(log'[c], "update_metrics")
           /\ ~Has(log'[c], "generate_failed") /\ ~Has(log'[c], "score_failed"))
              => /\ result'[c].kind = "returned"
                 /\ result'[c].value = frame'[c].output
                 /\ performance_metrics'.successful_executions =
                      performance_metrics.successful_executions + 1
                 /\ status' = "idle"
                 /\ retry_count' = 0]_vars

\* C4: retry_count is 0 whenever no execute call is in flight.
C4_RetryCountZeroBetweenCalls == AllIdle => retry_count = 0

\* C5: when no execute call is in flight the status is idle or error, idle after
\* a normal return and error after a raise.
C5_StatusIdleOrErrorBetweenCalls ==
    AllIdle =>
        /\ status \in {"idle", "error"}
        /\ \A c \in SeqCallers :
              /\ result[c].kind = "returned" => status = "idle"
              /\ result[c].kind = "raised" => status = "error"

\* C6: an output that execute returns passes the output ConstraintSet and was
\* validated and scored after it was generated.
C6_ReturnedOutputValidatedAndScored ==
    \A c \in Callers :
        result[c].kind = "returned"
            => /\ ~OutputRefused(result[c].value)
               /\ AfterLast(log[c], "generate", "validate_output")
               /\ AfterLast(log[c], "generate", "evaluate")

\* C7: an execute call whose input the input ConstraintSet refuses raises a
\* validation error with one message per failing field, makes no backend call,
\* appends no record, leaves retry_count as it was and leaves status error.
C7_InvalidInputIsTerminal ==
    [][\A c \in Callers :
          (BeginsCall(c) /\ InputRefused(frame'[c].input))
              => /\ frame'[c].pc = "idle"
                 /\ result'[c].kind = "raised"
                 /\ result'[c].error = "ValueError: input"
                 /\ Len(result'[c].messages) =
                      Cardinality({i \in DOMAIN config.input_constraints :
                          ~validate(config.input_constraints[i],
                                    DictGet(AsDict(config.input_constraints, frame'[c].input),
                                            config.input_constraints[i].name))})
                 /\ result'[c].messages # <<>>
                 /\ \A e \in BackendEvents : ~Has(log'[c], e)
                 /\ total_requests' = total_requests
                 /\ total_tokens_used' = total_tokens_used
                 /\ execution_history' = execution_history
                 /\ retry_count' = retry_count
                 /\ status' = "error"]_vars

\* a call that was refused for its input
C7_Witness ==
    \E c \in Callers :
        /\ result[c].error = "ValueError: input"
        /\ InputRefused(frame[c].input)
        /\ status = "error"

C9_BackendErrorIsTerminal ==
    [][\A c \in Callers :
          (/\ StepsCall(c)
           /\ frame[c].pc = "generate"
           /\ frame[c].attempt >= config.llm_max_retries
           /\ total_requests' = total_requests)
              => /\ frame'[c].pc = "idle"
                 /\ result'[c].kind = "raised"
                 /\ result'[c].error = "Exception: generate"
                 /\ log'[c] = log[c] \o <<"generate_failed", "raise">>
                 /\ ~Has(log'[c], "update_metrics")
                 /\ performance_metrics' = performance_metrics
                 /\ retry_count' = retry_count
                 /\ status' = "error"]_vars

\* a call that ended because its repair generation raised
C9_Witness ==
    \E c \in Callers :
        /\ result[c].error = "Exception: generate"
        /\ Count(log[c], "gwr") = 2
        /\ status = "error"

\* C10: the status error stays until the next execute call starts (reset_metrics
\* keeps it); that call is not refused: it validates its input and, when the
\* input is valid, sets the status to busy and issues the generation.
C10_ErrorUntilNextExecute ==
    [][status = "error" =>
          /\ \A c \in SeqCallers :
                (frame[c].pc = "idle" /\ steps < MaxSteps)
                    => ENABLED (\E input_data \in Inputs : BeginExecute(c, input_data))
          /\ (\A c \in Callers : ~BeginsCall(c)) => status' = "error"
          /\ \A c \in Callers :
                BeginsCall(c) =>
                    /\ SubSeq(log'[c], 1, 2) = <<"begin_error", "validate_input">>
                    /\ IF InputRefused(frame'[c].input)
                       THEN status' = "error"
                       ELSE /\ status' = "busy"
                            /\ frame'[c].pc = "generate"
                            /\ log'[c] = <<"begin_error", "validate_input",
                                           "gwr", "generate">>]_vars

\* a call in flight that started on an Agent in status error
C10_Witness ==
    \E c \in Callers :
        /\ log[c] # <<>> /\ log[c][1] = "begin_error"
        /\ frame[c].pc = "generate"
        /\ status = "busy"

-----------------------------------------------------------------------------
(* Claims about scoring failures *)

\* in this step the scoring call of c's metric in turn fails: the backend call
\* raises, or its reply does not parse as a number
ScoringFails(c) ==
    \/ ScoreRaises(c)
    \/ \E reply \in Replies :
          ScoreReturns(c, reply) /\ ParseFloat(Strip(reply.text)) = <<>>

\* the sums of evaluate after the metric in turn has scored 0.5
HalfScored(fr) ==
    LET weight == effective_weight(config, config.criteria[fr.idx])
    IN  [total_score |-> RAdd(fr.total_score, RMul(RHalf, weight)),
         total_weight |-> RAdd(fr.total_weight, weight)]

\* C11: when a scoring call raises or answers text that is no number, the metric
\* scores 0.5 and the call goes on: to the scoring of the next metric or, after
\* the last metric, to the record and the retry decision; the step raises only
\* from the acceptance update that follows the decision.
C11_ScoringFailureIsRecovered ==
    [][\A c \in Callers :
          ScoringFails(c) =>
              IF frame[c].idx < Len(config.criteria)
              THEN /\ frame'[c].pc = "score"
                   /\ frame'[c].idx = frame[c].idx + 1
                   /\ frame'[c].total_score = HalfScored(frame[c]).total_score
                   /\ frame'[c].total_weight = HalfScored(frame[c]).total_weight
                   /\ result'[c].kind = "none"
                   /\ status' = status
              ELSE /\ Len(execution_history') = Len(execution_history) + 1
                   /\ execution_history'[Len(execution_history')].quality_score =
                        final_score(HalfScored(frame[c]).total_score,
                                    HalfScored(frame[c]).total_weight)
                   /\ Has(log'[c], "record")
                   /\ (result'[c].kind = "raised" \/ status' = "error")
                         => Has(log'[c], "update_metrics")]_vars

\* a call whose scoring call failed and that went on to the retry decision and
\* into the repair path
C11_Witness ==
    \E c \in Callers :
        /\ Has(log[c], "score_failed")
        /\ Has(log[c], "retry")
        /\ result[c].kind # "raised"
        /\ status # "error"

-----------------------------------------------------------------------------
(* Claims about concurrent callers *)

\* the Agent state that execute mutates
AgentState == <<status, retry_count, performance_metrics, execution_history>>

\* C12: execute calls on one Agent are serialized: while a call is in flight
\* (between its transition to busy and its return or raise) no other call on the
\* Agent starts or runs, so nothing but the call in flight changes status,
\* retry_count, PerformanceMetrics or the history.
C12_ExecuteCallsAreSerialized ==
    [][\A c, d \in Callers :
          (c # d /\ frame[d].pc # "idle")
              => /\ frame'[c] = frame[c] /\ log'[c] = log[c]
                 /\ (frame'[d] = frame[d]) => (AgentState' = AgentState)]_vars

-----------------------------------------------------------------------------
(* Claims about the invoker *)

IsGenerate(e) == e[1] = "generate"
IsFailed(e) == e[1] = "failed"
IsSleep(e) == e[1] = "sleep"
IsLoad(e) == e[1] = "load"
IsGenerateOrSleep(e) == e[1] \in {"generate", "sleep"}

\* the direct call has ended and was a generate_with_retry
RetryCallEnded == llm_call.op = "generate_with_retry" /\ llm_call.pc = "idle"

\* C13: when every attempt of a generate_with_retry call has failed, the call has
\* made max_retries + 1 attempts, has slept 2^0, ..., 2^(max_retries-1) ticks, one
\* sleep between two consecutive attempts and none after the last, and raises the
\* exception of the last attempt.
C13_AllAttemptsFail ==
    LET N == config.llm_max_retries
        attempts == SelectSeq(llm_call.events, IsGenerate)
        failures == SelectSeq(llm_call.events, IsFailed)
        sleeps == SelectSeq(llm_call.events, IsSleep)
        order == SelectSeq(llm_call.events, IsGenerateOrSleep)
    IN  (RetryCallEnded /\ Len(failures) = Len(attempts))
            => /\ llm_call.result.kind = "raised"
               /\ llm_call.result.error = <<N>>
               /\ Len(attempts) = N + 1
               /\ \A i \in 1..Len(attempts) : attempts[i][2] = i - 1
               /\ Len(sleeps) = N
               /\ \A i \in 1..Len(sleeps) : sleeps[i][2] = 2 ^ (i - 1)
               /\ Len(order) = 2 * N + 1
               /\ \A i \in 1..Len(order) :
                     order[i][1] = IF i % 2 = 1 THEN "generate" ELSE "sleep"

\* a call with max_retries = 3 of which all four attempts failed
C13_Witness ==
    /\ RetryCallEnded
    /\ config.llm_max_retries = 3
    /\ llm_call.result.kind = "raised"
    /\ Len(SelectSeq(llm_call.events, IsFailed)) = 4

\* C14: generate_with_retry returns the result of the first attempt that
\* succeeds and ends there: when attempt k succeeds, k + 1 generate calls and k
\* sleeps have been made, all earlier attempts failed, and the caller gets the
\* text of that reply.
C14_FirstSuccessReturns ==
    [][\A reply \in BackendReplies :
          (/\ llm_call.op = "generate_with_retry"
           /\ BackendAnswers(reply)
           /\ reply.content # <<>>)
              => LET k == llm_call.attempt
                     events == llm_call'.events
                 IN  /\ llm_call'.pc = "idle"
                     /\ llm_call'.result = ReturnedResult(reply.content[1])
                     /\ Len(SelectSeq(events, IsGenerate)) = k + 1
                     /\ Len(SelectSeq(events, IsSleep)) = k
                     /\ Len(SelectSeq(events, IsFailed)) = k
                     /\ events[Len(events)] = <<"answer", reply.tokens_used>>]_vars

\* a call that returned the reply of its second attempt
C14_Witness ==
    /\ RetryCallEnded
    /\ llm_call.result.kind = "returned"
    /\ llm_call.result.text = "ok"
    /\ llm_call.attempt = 1
    /\ Len(SelectSeq(llm_call.events, IsSleep)) = 1

\* in this step a generate call of the invoker fails
GenerateFailsNow ==
    Len(SelectSeq(llm_call'.events, IsFailed)) = Len(SelectSeq(llm_call.events, IsFailed)) + 1

\* C15: the counters of the invoker only grow between resets: a generate call
\* that succeeds adds its tokens_used and 1 request, a generate call that fails
\* leaves both counters as they were, and only reset_token_usage lowers a
\* counter (to 0).
C15_CountersOnlyGrow ==
    [][/\ GenerateFailsNow
          => /\ total_tokens_used' = total_tokens_used
             /\ total_requests' = total_requests
       /\ \A reply \in BackendReplies :
             (BackendAnswers(reply) /\ reply.content # <<>>)
                => /\ total_tokens_used' = total_tokens_used + reply.tokens_used
                   /\ total_requests' = total_requests + 1
       /\ (total_tokens_used' < total_tokens_used \/ total_requests' < total_requests)
          => /\ ResetTokenUsage
             /\ total_tokens_used' = 0 /\ total_requests' = 0]_vars

BlankTexts == {"", " "}

\* C16: health_check never raises; it awaits load_model only when the model is
\* not loaded, then makes one generate call, and returns true exactly when that
\* call succeeded with a reply that is not blank; a failed load or generation
\* gives false.
C16_HealthCheckNeverRaises ==
    [][llm_call'.op = "health_check"
          => /\ llm_call'.result.kind # "raised"
             /\ llm_call'.pc \in {"load", "gen_load"} => ~is_loaded'
             /\ BeginHealthCheck
                   => /\ (llm_call'.pc = "load") <=> ~is_loaded
                      /\ is_loaded => llm_call'.events = <<<<"generate", 0>>>>
             /\ (llm_call.pc # "idle" /\ llm_call'.pc = "idle")
                   => /\ llm_call'.result.kind = "returned"
                      /\ Len(SelectSeq(llm_call'.events, IsGenerate)) = 1
                      /\ llm_call'.result.ok <=>
                           /\ \E reply \in BackendReplies : BackendAnswers(reply)
                           /\ llm_call'.reply # <<>>
                           /\ llm_call'.reply[1] \notin BlankTexts]_vars

\* a health check that loaded the model and found the backend healthy
C16_Witness ==
    /\ llm_call.op = "health_check" /\ llm_call.pc = "idle"
    /\ llm_call.result.ok
    /\ Len(SelectSeq(llm_call.events, IsLoad)) = 1
    /\ is_loaded

-----------------------------------------------------------------------------
(* Claims about the factory *)

HasEvent(call, e) == \E i \in DOMAIN call.events : call.events[i] = e

\* the call on the factory in flight is a create_llm in auto mode
AutoCall == factory_call.op = "create_llm" /\ factory_call.mode = "auto"

\* the call on the factory in flight is a switch_mode
SwitchCall == factory_call.op = "switch_mode"

\* the cloud invoker exists or can be constructed
CloudCreatable == factory.cloud_llm # 0 \/ factory.config.has_api_key

\* C17: create_llm in auto mode probes the local invoker first; when that health
\* check passes it returns the local invoker with current_mode local and the
\* cloud invoker is neither constructed nor probed; when it fails, fallback is
\* enabled and the cloud health check passes, it returns the cloud invoker with
\* current_mode cloud.
C17_AutoProbesLocalFirst ==
    [][/\ (BeginCreateLLM /\ factory.config.preferred_mode = "auto")
             => /\ factory_call'.pc = "local_health"
                /\ factory'.local_llm # 0
                /\ ~HasEvent(factory_call', "probe_cloud")
       /\ (AutoCall /\ LocalHealthReturns(TRUE))
             => /\ factory_call'.pc = "idle"
                /\ factory_call'.result =
                     [kind |-> "returned", llm |-> factory.local_llm, error |-> ""]
                /\ factory'.current_mode = "local"
                /\ factory'.cloud_llm = factory.cloud_llm
                /\ ~HasEvent(factory_call', "construct_cloud")
                /\ ~HasEvent(factory_call', "probe_cloud")
       /\ (AutoCall /\ LocalHealthReturns(FALSE)
             /\ factory.config.fallback_to_cloud /\ CloudCreatable)
             => /\ factory_call'.pc = "cloud_health"
                /\ factory'.cloud_llm # 0
       /\ (AutoCall /\ CloudHealthReturns(TRUE))
             => /\ factory.config.fallback_to_cloud
                /\ factory_call.events[1] \in {"construct_local", "probe_local"}
                /\ factory_call'.pc = "idle"
                /\ factory_call'.result =
                     [kind |-> "returned", llm |-> factory.cloud_llm, error |-> ""]
                /\ factory.cloud_llm # 0
                /\ factory'.current_mode = "cloud"]_vars

\* an auto create_llm that fell back to the cloud invoker
C17_Witness ==
    /\ AutoCall /\ factory_call.pc = "idle"
    /\ factory_call.result.kind = "returned"
    /\ factory_call.result.llm = factory.cloud_llm
    /\ factory.current_mode = "cloud"
    /\ HasEvent(factory_call, "probe_local")

\* C18: in auto mode, when the local health check fails: with fallback disabled
\* create_llm fails at once and the cloud invoker is neither constructed nor
\* probed; with fallback enabled and the cloud invoker unhealthy or without
\* credential it fails with the combined both-unavailable error.  current_mode
\* then is what it was before the call.
C18_AutoBothUnavailable ==
    [][/\ (AutoCall /\ LocalHealthReturns(FALSE))
             => IF ~factory.config.fallback_to_cloud
                THEN /\ factory_call'.pc = "idle"
                     /\ factory_call'.result.kind = "raised"
                     /\ factory_call'.result.error = "local unavailable, no fallback"
                     /\ factory' = factory
                     /\ ~HasEvent(factory_call', "construct_cloud")
                     /\ ~HasEvent(factory_call', "probe_cloud")
                ELSE IF ~CloudCreatable
                THEN /\ factory_call'.pc = "idle"
                     /\ factory_call'.result.kind = "raised"
                     /\ factory_call'.result.error = "both unavailable"
                     /\ factory' = factory
                ELSE factory'.current_mode = factory.current_mode
       /\ (AutoCall /\ CloudHealthReturns(FALSE))
             => /\ factory_call'.pc = "idle"
                /\ factory_call'.result.kind = "raised"
                /\ factory_call'.result.error = "both unavailable"
                /\ factory'.current_mode = factory.current_mode
       /\ (AutoCall /\ factory_call'.result.kind = "raised")
             => factory'.current_mode = factory_call'.before]_vars

\* an auto create_llm that failed on both kinds while current_mode was cloud
C18_Witness ==
    /\ AutoCall /\ factory_call.pc = "idle"
    /\ factory_call.result.error = "both unavailable"
    /\ HasEvent(factory_call, "probe_cloud")
    /\ factory.current_mode = "cloud"

\* C19: current_mode changes only when a selection succeeds, to the kind
\* selected.  switch_mode(kind) applies the rules of kind whatever the policy:
\* it returns the invoker of that kind and sets current_mode to kind when the
\* health check passes; on an unhealthy backend, a missing credential or an
\* unsupported kind it raises and leaves current_mode as it was.
C19_SwitchModeSetsCurrentMode ==
    [][/\ factory'.current_mode # factory.current_mode
             => /\ factory_call'.pc = "idle" /\ factory_call'.result.kind = "returned"
                /\ \/ LocalHealthReturns(TRUE) /\ factory'.current_mode = "local"
                   \/ CloudHealthReturns(TRUE) /\ factory'.current_mode = "cloud"
       /\ \A mode \in Modes :
             BeginSwitchMode(mode)
                => CASE mode = "local" -> factory_call'.pc = "local_health"
                     [] mode = "cloud" ->
                          IF CloudCreatable
                          THEN factory_call'.pc = "cloud_health"
                          ELSE /\ factory_call'.result.kind = "raised"
                               /\ factory_call'.result.error = "ValueError: api_key"
                               /\ factory' = factory
                     [] OTHER -> /\ factory_call'.result.kind = "raised"
                                 /\ factory_call'.result.error = "ValueError: mode"
                                 /\ factory' = factory
       /\ (SwitchCall /\ LocalHealthReturns(TRUE))
             => /\ factory_call.mode = "local"
                /\ factory'.current_mode = "local"
                /\ factory_call'.result =
                     [kind |-> "returned", llm |-> factory.local_llm, error |-> ""]
       /\ (SwitchCall /\ CloudHealthReturns(TRUE))
             => /\ factory_call.mode = "cloud"
                /\ factory'.current_mode = "cloud"
                /\ factory_call'.result =
                     [kind |-> "returned", llm |-> factory.cloud_llm, error |-> ""]
       /\ (SwitchCall /\ (LocalHealthReturns(FALSE) \/ CloudHealthReturns(FALSE)))
             => /\ factory_call'.pc = "idle"
                /\ factory_call'.result.kind = "raised"
                /\ factory' = factory
       /\ (factory_call'.op = "switch_mode" /\ factory_call'.result.kind = "raised")
             => factory'.current_mode = factory_call'.before]_vars

\* a switch_mode to cloud that succeeded on a factory whose policy is local
C19_Witness ==
    /\ SwitchCall /\ factory_call.pc = "idle"
    /\ factory.config.preferred_mode = "local"
    /\ factory_call.mode = "cloud"
    /\ factory_call.result.kind = "returned"
    /\ factory.current_mode = "cloud"
    /\ factory_call.before = "local"

\* C20: the factory holds at most one invoker per kind: an invoker that exists
\* is never replaced or dropped, also when its health check fails, no invoker is
\* constructed for a kind that has one, and a call that returns the invoker of
\* a kind returns the one the factory already held.
C20_OneInvokerPerKind ==
    [][/\ factory.local_llm # 0 => factory'.local_llm = factory.local_llm
       /\ factory.cloud_llm # 0 => factory'.cloud_llm = factory.cloud_llm
       /\ factory'.constructed =
            (IF factory'.local_llm # 0 THEN 1 ELSE 0) +
            (IF factory'.cloud_llm # 0 THEN 1 ELSE 0)
       /\ (factory'.local_llm # 0 /\ factory'.cloud_llm # 0)
             => factory'.local_llm # factory'.cloud_llm
       /\ (factory_call.pc # "idle" /\ factory_call'.result.kind = "returned")
             => /\ factory_call'.result.llm # 0
                /\ factory' = [factory EXCEPT !.current_mode = factory'.current_mode]
                /\ factory_call'.result.llm =
                     IF factory'.current_mode = "local"
                     THEN factory.local_llm ELSE factory.cloud_llm]_vars

\* a second call for the local kind, after a failed health check, returned the
\* invoker constructed by the first
C20_Witness ==
    /\ factory_call.pc = "idle"
    /\ factory_call.result.kind = "returned"
    /\ factory_call.result.llm = factory.local_llm
    /\ factory_call.events = <<"probe_local">>
    /\ factory_call.before = "none"

-----------------------------------------------------------------------------
(* Claims about the history and the metrics *)

MaxLimit == 3          \* get_execution_history is read with limit in 0..MaxLimit

Min(a, b) == IF a < b THEN a ELSE b

\* the last k records of the history, in append order
LastRecords(history, k) == SubSeq(history, Len(history) - k + 1, Len(history))

\* C21: for every limit >= 0, get_execution_history(limit) returns exactly the
\* last min(limit, n) of the n records, most recent last; and the history only
\* grows by an append at its end, except that reset_metrics empties it.
C21_HistoryIsBoundedSuffix ==
    [][/\ \A limit \in 0..MaxLimit :
             get_execution_history(limit)' =
                LastRecords(execution_history', Min(limit, Len(execution_history')))
       /\ \/ execution_history' = execution_history
          \/ /\ Len(execution_history') = Len(execution_history) + 1
             /\ SubSeq(execution_history', 1, Len(execution_history)) = execution_history
          \/ ResetMetrics /\ execution_history' = <<>>]_vars

\* the fields of PerformanceMetrics (spec section 3)
MetricFields ==
    {"total_executions", "successful_executions", "average_score",
     "average_response_time", "total_tokens_used", "average_tokens_per_execution"}

\* C22: reset_metrics sets every PerformanceMetrics field to zero, empties the
\* execution history, zeroes the token and request counters of the bound
\* invoker, and leaves status and retry_count as they were.
C22_ResetMetricsClears ==
    [][ResetMetrics =>
          /\ DOMAIN performance_metrics' = MetricFields
          /\ \A k \in {"total_executions", "successful_executions", "total_tokens_used"} :
                performance_metrics'[k] = 0
          /\ \A k \in {"average_score", "average_response_time",
                        "average_tokens_per_execution"} :
                performance_metrics'[k] = RZero
          /\ execution_history' = <<>>
          /\ \A limit \in 0..MaxLimit : get_execution_history(limit)' = <<>>
          /\ total_tokens_used' = 0
          /\ total_requests' = 0
          /\ status' = status
          /\ retry_count' = retry_count]_vars

\* reset_metrics has run after a call that failed in its repair generation: the
\* metrics and the counters are zero, the status is still error and retry_count
\* still 1
C22_Witness ==
    /\ AllIdle
    /\ DOMAIN performance_metrics = MetricFields
    /\ performance_metrics.total_executions = 0
    /\ execution_history = <<>>
    /\ total_tokens_used = 0 /\ total_requests = 0
    /\ status = "error"
    /\ retry_count = 1
    /\ \E c \in SeqCallers : Has(log[c], "record")

\* the record of an execution that took the acceptance branch: execute decided
\* against a retry right after it appended the record
IsAccepted(rec) == ~needs_retry(config, rec.retry_count, rec.quality_score)

\* the accepted executions since the last reset_metrics, in order
AcceptedRecords == SelectSeq(execution_history, IsAccepted)

RECURSIVE RSum(_)
RSum(xs) == IF xs = <<>> THEN RZero ELSE RAdd(Head(xs), RSum(Tail(xs)))

\* the arithmetic mean of a sequence of rationals (0 for none)
Mean(xs) == IF xs = <<>> THEN RZero ELSE RDivInt(RSum(xs), Len(xs))

Scores(recs) == [i \in 1..Len(recs) |-> recs[i].quality_score]
Times(recs) == [i \in 1..Len(recs) |-> RInt(recs[i].response_time)]

\* C23: after any sequence of sequential execute calls, accepted ones mixed with
\* calls that end in an error, the running mean quality score is the arithmetic
\* mean of the scores of the accepted executions and the running mean latency
\* the mean of their response times; an accepted execution x enters a mean as
\* (old_mean * (n - 1) + x) / n, n being the number of executions averaged so far.
C23_RunningMeansAreMeans ==
    [][LET accepted == AcceptedRecords'
           n == Len(accepted)
       IN  /\ performance_metrics'.average_score = Mean(Scores(accepted))
           /\ performance_metrics'.average_response_time = Mean(Times(accepted))
           /\ Len(AcceptedRecords) + 1 = n
                 => /\ performance_metrics'.average_score =
                         RDivInt(RAdd(RMul(performance_metrics.average_score, RInt(n - 1)),
                                      accepted[n].quality_score), n)
                    /\ performance_metrics'.average_response_time =
                         RDivInt(RAdd(RMul(performance_metrics.average_response_time,
                                           RInt(n - 1)),
                                      RInt(accepted[n].response_time)), n)]_vars

-----------------------------------------------------------------------------
(* Claims about the constraint validator *)

\* C24: for every constraint, whatever its data_type and its bounds, validate on
\* a missing value (None) returns false when required is true and true when
\* required is false: no type, length, pattern, range or allowed-values check
\* has a say.
C24_MissingValue ==
    (probe.op = "validate" /\ probe.data = PyNone)
        => probe.ok = ~probe.constraint.required

\* validate has accepted a missing value for an optional integer constraint
\* with bounds, a malformed pattern and a list of allowed values
C24_Witness ==
    /\ probe.op = "validate"
    /\ probe.data = PyNone
    /\ probe.ok
    /\ ~probe.constraint.required
    /\ probe.constraint.data_type = "integer"
    /\ probe.constraint.min_value = <<1>>
    /\ probe.constraint.min_length = <<2>>
    /\ probe.constraint.pattern = "["
    /\ probe.constraint.allowed_values # {}

\* a numeric constraint and a numeric value of the type it declares
NumericConstraint(c) == c.data_type \in {"integer", "float"}
OfDeclaredType(c, v) ==
    \/ c.data_type = "integer" /\ v.kind = "int"
    \/ c.data_type = "float" /\ v.kind \in {"int", "float"}

Bounded(c) == c.min_value # <<>> \/ c.max_value # <<>>
Below(c, v) == c.min_value # <<>> /\ v.n < c.min_value[1]
Above(c, v) == c.max_value # <<>> /\ v.n > c.max_value[1]

\* the constraint without its range bounds
Unbounded(c) == [c EXCEPT !.min_value = <<>>, !.max_value = <<>>]

C26_MessageIffInvalid ==
    probe.op = "get_error_message"
        => (probe.message = <<>> <=> validate(probe.constraint, probe.data))

\* get_error_message has explained the failure of 1 against max_value 0 (a
\* bound no branch of the range message names) with its closing message
C26_Witness ==
    /\ probe.op = "get_error_message"
    /\ probe.constraint.max_value = <<0>>
    /\ probe.constraint.min_value = <<>>
    /\ probe.data = PyInt(1)
    /\ ~validate(probe.constraint, probe.data)
    /\ probe.message = Message(probe.constraint, "generic")

\* the value the set hands to constraint i
FieldOf(cs, data, i) == DictGet(data, cs[i].name)

\* the constraints of the list that fail on their field, in constraint order
FailingIndices(cs, data) ==
    LET Fails(i) == ~validate(cs[i], FieldOf(cs, data, i))
    IN  SelectSeq([i \in 1..Len(cs) |-> i], Fails)

\* C27: for a ConstraintSet over any list of constraints and any mapping: a key
\* absent from the mapping is validated as a missing value; is_valid is true iff
\* validate of every constraint on its field is true; get_all_errors returns
\* exactly one message per failing constraint, in constraint order; so is_valid
\* is true iff get_all_errors is empty, also when two constraints share a name.
C27_SetValidity ==
    LET cs == probe.constraints
        data == probe.data
        failing == FailingIndices(cs, data)
    IN  /\ probe.op = "validate"
              => \A i \in DOMAIN cs :
                    (i = LastNamed(cs, cs[i].name) /\ cs[i].name \notin DOMAIN data)
                        => probe.results[cs[i].name] = validate(cs[i], PyNone)
        /\ probe.op = "is_valid"
              => /\ probe.valid <=> \A i \in DOMAIN cs : validate(cs[i], FieldOf(cs, data, i))
                 /\ probe.valid <=> get_all_errors(cs, data) = <<>>
        /\ probe.op = "get_all_errors"
              => /\ Len(probe.errors) = Len(failing)
                 /\ \A k \in DOMAIN failing :
                       <<probe.errors[k]>> =
                          get_error_message(cs[failing[k]], FieldOf(cs, data, failing[k]))
                 /\ \A i \in DOMAIN cs :
                       cs[i].name \notin DOMAIN data
                          => get_error_message(cs[i], FieldOf(cs, data, i)) =
                                get_error_message(cs[i], PyNone)

-----------------------------------------------------------------------------
(* Claims about the quality criterion *)

\* evaluate_output has returned
EvaluateOutputDone == probe.op = "evaluate_output" /\ probe.pc = "done"

\* the sum of the effective weights of the metrics of a criterion
TotalEffectiveWeight(criterion) ==
    RSum([i \in DOMAIN criterion.criteria |->
             effective_weight(criterion, criterion.criteria[i])])

\* C28: for every criterion (any number of metrics, any metric weights and
\* any weight overrides) and every output, evaluate returns a score within
\* [0, 1]; when metrics are present and their total effective weight is zero
\* it returns 0.0.
C28_ScoreIsNormalized ==
    EvaluateOutputDone =>
        /\ RLeq(RZero, probe.score[1])
        /\ RLeq(probe.score[1], ROne)
        /\ (/\ probe.criterion.criteria # <<>>
            /\ TotalEffectiveWeight(probe.criterion) = RZero)
               => probe.score[1] = RZero

\* C29: a criterion constructed without metrics never evaluates with an
\* empty metric list: its metrics are the ones derived from the description
\* by keyword matching, or the one default overall-quality metric when no
\* keyword matches, and evaluate returns the weighted mean over those metrics.
C29_MetricsDerivedFromDescription ==
    (EvaluateOutputDone /\ probe.given = <<>>) =>
        /\ probe.criterion.criteria # <<>>
        /\ probe.criterion.criteria =
              extract_criteria_from_description(probe.criterion.description)
        /\ ~probe.llm =>
              probe.score[1] = evaluate_simple(post_init(probe.criterion), probe.output)

\* the words the contract counts as failure/error keywords: those of the
\* heuristic and the English ones of its example
FailureWords == ErrorKeywords \cup {"error", "failure", "invalid"}

\* the criterion has the one metric named '(accuracy)/accuracy', with a
\* positive effective weight, and was evaluated without a backend on a string
AccuracyAlone ==
    /\ EvaluateOutputDone
    /\ ~probe.llm
    /\ Len(probe.criterion.criteria) = 1
    /\ probe.criterion.criteria[1].name = "zhunquexing/accuracy"
    /\ RLess(RZero, effective_weight(probe.criterion, probe.criterion.criteria[1]))
    /\ probe.output.kind = "str"

\* C30: under the heuristic strategy an accuracy-like metric such as the one
\* named '(accuracy)/accuracy' scores a string output 0.3 when the output
\* contains a failure/error keyword (the output "error: invalid" scores 0.3)
\* and 0.8 otherwise; with min_score 0.8 the score 0.3 is not satisfied and
\* get_feedback returns the poor tier.
C30_AccuracyHeuristic ==
    AccuracyAlone =>
        /\ probe.score[1] =
              IF \E word \in FailureWords : Contains(Lower(probe.output.s), word)
              THEN Rat(3, 10) ELSE Rat(8, 10)
        /\ probe.output.s = "error: invalid" => probe.score[1] = Rat(3, 10)
        /\ (probe.criterion.min_score = Rat(4, 5) /\ probe.score[1] = Rat(3, 10))
              => (~probe.is_satisfied /\ probe.feedback = "poor")

-----------------------------------------------------------------------------
(* Claims about the counters and the record of execute *)

\* C31: total_executions equals the number of execute calls started since
\* construction or the last reset_metrics, whatever their outcome: it is 0
\* at construction and after reset_metrics, grows by exactly 1 in the step
\* that starts a call, and stays as it is in every later step of the call
\* (scoring, the repair path, raising, returning).
C31_TotalExecutionsCountsCalls ==
    /\ performance_metrics.total_executions = 0
    /\ [][LET before == performance_metrics.total_executions
              after == performance_metrics'.total_executions
          IN  /\ ResetMetrics => after = 0
              /\ \A c \in Callers :
                    /\ BeginsCall(c) => after = before + 1
                    /\ StepsCall(c) => after = before]_vars

\* two calls were started since the last reset, and the second one has gone
\* through the repair path and returned
C31_Witness ==
    \E c \in Callers :
        /\ performance_metrics.total_executions = 2
        /\ "average_tokens_per_execution" \in DOMAIN performance_metrics
        /\ Has(log[c], "retry")
        /\ result[c].kind = "returned"

-----------------------------------------------------------------------------
(* Claims about the messages and the types of the constraint validator *)

\* the first check of validate that fails, in its fixed order
FirstFailing(c, v) ==
    IF c.required /\ v.kind = "none" THEN "required"
    ELSE IF ~check_type(c, v) THEN "type"
    ELSE IF ~check_length(c, v) THEN "length"
    ELSE IF ~check_pattern(c, v) THEN "pattern"
    ELSE IF ~check_value_range(c, v) THEN "range"
    ELSE "allowed"

\* the check a message explains
CheckOf(reason) ==
    CASE reason \in {"length between", "length min", "length max"} -> "length"
      [] reason \in {"value between", "value min", "value max"} -> "range"
      [] OTHER -> reason

\* C32: for an invalid value get_error_message returns the explanation of the
\* first failing check in the order required, type, length, pattern, numeric
\* range, allowed values: never a later check's message, and never the
\* generic fallback (also when the violated bound is 0).
C32_MessageOfFirstFailingCheck ==
    (probe.op = "get_error_message" /\ ~validate(probe.constraint, probe.data))
        => /\ probe.message # <<>>
           /\ CheckOf(probe.message[1].reason) = FirstFailing(probe.constraint, probe.data)

-----------------------------------------------------------------------------
(* Claims about the advice of the quality criterion *)

\* the advice is in the list
Advises(suggestions, advice) == \E i \in DOMAIN suggestions : suggestions[i] = advice

\* C33: get_improvement_suggestions(score) accumulates advice by independent
\* thresholds, for every min_score: the regenerate advice is present iff
\* score < min_score, the check-constraints and optimize-prompt advice iff
\* score < 0.5, the add-detail and fix-format advice iff score < 0.7.
C33_AdviceByIndependentThresholds ==
    EvaluateOutputDone =>
        LET score == probe.score[1]
            given == probe.suggestions
        IN  /\ Advises(given, "regenerate") <=> RLess(score, probe.criterion.min_score)
            /\ Advises(given, "check constraints") <=> RLess(score, Rat(5, 10))
            /\ Advises(given, "optimize prompt") <=> RLess(score, Rat(5, 10))
            /\ Advises(given, "add detail") <=> RLess(score, Rat(7, 10))
            /\ Advises(given, "fix format") <=> RLess(score, Rat(7, 10))

\* the kinds of value a data_type admits when compatibility is exact, float
\* alone being widened to integers and reals
ExactKinds(data_type) ==
    CASE data_type = "integer" -> {"int"}
      [] data_type = "float" -> {"int", "float"}
      [] data_type = "boolean" -> {"bool"}
      [] data_type = "array" -> {"list"}
      [] data_type = "object" -> {"dict"}
      [] OTHER -> {"str"}

\* the constraint checks nothing but the type
TypeOnly(c) ==
    /\ c.min_length = <<>> /\ c.max_length = <<>> /\ c.pattern = ""
    /\ c.allowed_values = {} /\ c.min_value = <<>> /\ c.max_value = <<>>

\* C34: type compatibility is exact: an integer constraint accepts only
\* integers (not booleans, not reals), a boolean constraint only booleans,
\* string-shaped kinds only strings, array only sequences, object only
\* mappings; the float kind alone is widened, to integers and reals.
C34_TypeCompatibilityIsExact ==
    (probe.op = "validate" /\ probe.data.kind # "none") =>
        /\ probe.ok => probe.data.kind \in ExactKinds(probe.constraint.data_type)
        /\ TypeOnly(probe.constraint)
              => (probe.ok <=> probe.data.kind \in ExactKinds(probe.constraint.data_type))

-----------------------------------------------------------------------------
(* Claims about the retry budget, the record and the metrics of execute *)

\* C35: retry_count never exceeds max_retries in any reachable state, also
\* when concurrent execute calls on the Agent are suspended at backend calls:
\* retry_count only changes by being reset to 0 or by growing by 1 from a
\* value below max_retries, the test and the increment being one step.
C35_RetryCountWithinBudget ==
    /\ [](retry_count <= config.max_retries)
    /\ [][retry_count' # retry_count
             => \/ retry_count' = 0
                \/ (retry_count < config.max_retries /\ retry_count' = retry_count + 1)]_vars

\* two calls are in flight, one in its repair path after it used the budget,
\* the other suspended at its scoring call
C35_Witness ==
    \E c, d \in Callers :
        /\ c # d
        /\ frame[c].pc = "generate" /\ frame[c].phase = "repair"
        /\ frame[d].pc = "score"
        /\ config.max_retries >= 1
        /\ retry_count = config.max_retries

\* the last record of the history after this step
LastRecord == execution_history'[Len(execution_history')]

\* C36: when execute returns normally, the last record of the history holds
\* the input of the call, the output it returned, that output's score and
\* the number of retries the call consumed; after a repair it holds the
\* repaired output.
C36_LastRecordIsTheReturnedOutput ==
    [][\A c \in Callers :
          (StepsCall(c) /\ result'[c].kind = "returned")
              => /\ execution_history' # <<>>
                 /\ LastRecord.input = frame'[c].input
                 /\ LastRecord.output = result'[c].value
                 /\ LastRecord.retry_count = Count(log'[c], "retry")
                 /\ RLeq(config.min_score, LastRecord.quality_score)
                       <=> AfterLast(log'[c], "gwr", "score_ok")]_vars

\* C37: the cumulative token total of PerformanceMetrics counts each token
\* once: once reset_metrics has zeroed the metrics and the invoker's
\* counters, PerformanceMetrics.total_tokens_used never exceeds the invoker's
\* total-token counter.
C37_TokensCountedOnce ==
    "total_tokens_used" \in DOMAIN performance_metrics
        => performance_metrics.total_tokens_used <= total_tokens_used

\* the acceptance statistics: every metric but total_executions
Statistics(pm) == [k \in DOMAIN pm \ {"total_executions"} |-> pm[k]]

\* C38: an execute call that raises leaves the acceptance statistics as they
\* were: no step of a call other than the one that returns changes
\* successful_executions, the running means or the token total, so after a
\* call that raised only total_executions differs, by the 1 added at its start.
C38_FailedCallKeepsStatistics ==
    [][\A c \in Callers :
          ((BeginsCall(c) \/ StepsCall(c)) /\ result'[c].kind # "returned")
              => /\ Statistics(performance_metrics') = Statistics(performance_metrics)
                 /\ performance_metrics'.total_executions =
                      performance_metrics.total_executions + (IF BeginsCall(c) THEN 1 ELSE 0)]_vars

-----------------------------------------------------------------------------
(* Claims about the repair path and the number of backend calls *)

\* this step of c's call takes the retry decision and enters the repair path
EntersRepair(c) == ~Has(log[c], "retry") /\ Has(log'[c], "retry")

\* the repair generation is issued with the original prompt
RepairsWithOriginalPrompt(c) ==
    /\ frame'[c].pc = "generate"
    /\ frame'[c].phase = "repair"
    /\ frame'[c].prompt = build_prompt(config)
    /\ result'[c].kind = "none"

\* C39: the repair path never fails because of prompt optimization: with
\* auto-optimization disabled the repair generation uses the original prompt
\* and no meta-call is made; with it enabled exactly one single-shot meta-call
\* is made, and when it raises the repair generation still takes place, with
\* the original prompt, instead of execute raising.
C39_OptimizationNeverFailsRepair ==
    [][\A c \in Callers :
          StepsCall(c) =>
             /\ Count(log'[c], "optimize_call") <= 1
             /\ EntersRepair(c) =>
                   IF config.enable_auto_optimization
                   THEN /\ frame'[c].pc = "optimize"
                        /\ Count(log'[c], "optimize_call") = 1
                        /\ result'[c].kind = "none"
                   ELSE /\ RepairsWithOriginalPrompt(c)
                        /\ Count(log'[c], "optimize_call") = 0
             /\ frame[c].pc = "optimize" =>
                   /\ frame'[c].pc = "generate" /\ frame'[c].phase = "repair"
                   /\ result'[c].kind = "none"
                   /\ Has(log'[c], "optimize_failed") => RepairsWithOriginalPrompt(c)
             /\ (frame'[c].phase = "repair" /\ ~config.enable_auto_optimization)
                   => ~Has(log'[c], "optimize_call")]_vars

\* the meta-call has raised and the repair generation is in flight with the
\* original prompt
C39_Witness ==
    \E c \in Callers :
        /\ config.enable_auto_optimization
        /\ Has(log[c], "optimize_failed")
        /\ frame[c].pc = "generate" /\ frame[c].phase = "repair"
        /\ frame[c].prompt = build_prompt(config)

\* the backend calls a call has issued: generations, scoring calls, meta-calls
BackendCalls(l) ==
    Count(l, "generate") + Count(l, "score_call") + Count(l, "optimize_call")

\* the steps one generate_with_retry takes at most: max_retries + 1 attempts
\* and a sleep between two of them
RetrySteps(attempt) == 2 * (config.llm_max_retries - attempt) + 1

\* the steps the repair path takes at most, none when max_retries is 0
RepairSteps ==
    IF config.max_retries = 0 THEN 0
    ELSE (IF config.enable_auto_optimization THEN 1 ELSE 0) + RetrySteps(0)

\* a bound on the steps c's call still takes, 0 when no call is in flight
Remaining(c) ==
    LET fr == frame[c]
        rest == IF fr.phase = "repair" THEN 0
                ELSE Len(config.criteria) + RepairSteps
    IN  CASE fr.pc = "generate" -> RetrySteps(fr.attempt) + rest
          [] fr.pc = "sleep" -> RetrySteps(fr.attempt) - 1 + rest
          [] fr.pc = "score" -> Len(config.criteria) - fr.idx + 1 + RepairSteps
          [] fr.pc = "optimize" -> 1 + RetrySteps(0)
          [] OTHER -> 0

\* the backend calls one execute issues at most
MaxBackendCalls ==
    (config.llm_max_retries + 1) + Len(config.criteria)
      + (IF config.max_retries = 0 THEN 0
         ELSE (IF config.enable_auto_optimization THEN 1 ELSE 0)
                + (config.llm_max_retries + 1))

\* C40: every execute call terminates after finitely many backend calls,
\* provided every backend call and backoff sleep ends: each such end is a step
\* of the call, every step strictly lowers a bound on the steps left that is
\* never negative and is 0 only when the call has ended, and the backend
\* calls of one execute number at most a function of the Agent's
\* max_retries, the invoker's max_retries and the number of metrics.
C40_ExecuteTerminates ==
    /\ [](\A c \in Callers :
             /\ Remaining(c) >= 0
             /\ Remaining(c) = 0 <=> frame[c].pc = "idle"
             /\ BackendCalls(log[c]) <= MaxBackendCalls)
    /\ [][\A c \in Callers :
             /\ BeginsCall(c) => Remaining(c)' <= RetrySteps(0) + Len(config.criteria) + RepairSteps
             /\ StepsCall(c) => Remaining(c)' < Remaining(c)]_vars

\* a call that failed and retried its first generation, scored low, and had
\* its repair generation fail once has issued all the backend calls allowed
C40_Witness ==
    \E c \in Callers :
        /\ config.max_retries >= 1 /\ config.llm_max_retries >= 1
        /\ frame[c].phase = "repair"
        /\ BackendCalls(log[c]) = MaxBackendCalls

====
